---------------------------- MODULE Spec2Model ----------------------------
(***************************************************************************)
(* Whale-flow analytics engine of the Hyperliquid tool                     *)
(* (src/api/app/clients/tools/structured/Hyperliquid.js, second copy,      *)
(* lines 847-2140: the latest revision of the file).                       *)
(*                                                                         *)
(* The module holds several specifications over one set of variables:      *)
(*   SpecLimiter  the bounded-concurrency limiter                          *)
(*   SpecPost     hlPost's retry loop and the liquidation query built on it *)
(*   SpecFold     the net-notional aggregation folds                       *)
(*   SpecCall     the entry point _call                                    *)
(* A specification leaves the variables of the other parts at their idle   *)
(* values.                                                                 *)
(***************************************************************************)
EXTENDS Integers, Sequences, FiniteSets, TLC

VARIABLES
    \* ---- limiter(max): the closure's state and the tasks handed to it
    max,          \* the limit the limiter was created with
    active,       \* let active
    q,            \* const q: task ids waiting, head first
    status,       \* per task: new, queued, running, settled, delivered, released
    outcome,      \* per task: how fn()'s promise settled (none, ok, fail)
    callerResult, \* per task: how the promise returned by limit(fn) settled
    submitted,    \* how many tasks were handed to limit() so far
    \* ---- hlPost(body, retries = 3) and the liquidation query built on it
    pc,           \* hlPost: idle, attempt (about to post), sleep (backoff), done
    i,            \* hlPost: the loop variable
    resps,        \* hlPost: what each axios.post of this call settled with
    slept,        \* hlPost: ms of backoff taken after each failed attempt
    hlResult,     \* hlPost: pending, or what the call returned or threw
    liqPc,        \* aggregateLiquidations: idle, fetching, fetched, done, failed
    events,       \* aggregateLiquidations: const events
    out,          \* aggregateLiquidations: const out, entries in insertion order
    liqError,     \* the error aggregateLiquidations' caller receives, or NoError
    \* ---- the net-notional folds of runFlowSweep and runTrendBias over fillsResp
    foldAddrs,    \* r.addr of the entries of fillsResp taken so far, in order
    inWallet,     \* whether the outer loop is inside an entry r of fillsResp
    nFills,       \* fills folded so far, over all entries
    fsAgg,        \* runFlowSweep: const agg, entries in insertion order
    tbAgg,        \* runTrendBias: const agg, entries in insertion order
    perCoin,      \* runTrendBias: let perCoin of the current entry
    last,         \* the last fold step: the fill folded and the change it made
    \* ---- HyperliquidAPI._call(raw)
    callPc,       \* idle, start, importing, prequery, fills, fetching, positions, done
    input,        \* raw: mode, addresses, useBrowse, useSheet, positions, hasTicker
    addrList,     \* let addrList
    requests,     \* hlPost calls made for this invocation
    fetchSt,      \* walletSummary: per wallet index, its fill fetch: none, running, done
    fetchResp,    \* walletSummary: per wallet index, what its hlPost ended with
    batchNo,      \* walletSummary: which batch of batches the loop is at
    fillsBatch,   \* walletSummary: the array Promise.all fills for the batch
    fillsRaw,     \* walletSummary: const fillsRaw
    summary,      \* walletSummary: const summary
    callResult,   \* pending, or what the promise returned by _call settled with
    \* ---- runDivergence({ addrList }, p), from its aggregation loop on
    divPc,        \* idle, book (aggregating fillsResp), done
    divP,         \* p: closeNotional, buildNotional, minClosers, minBuilders
    book,         \* const book, entries in insertion order
    divFills,     \* fills of fillsResp taken so far
    divOut,       \* what runDivergence returned
    divSides,     \* which sides' fills went into which bucket of which wallet
    \* ---- runPositionDeltaPulse({ addrList }, p)
    pdPc,         \* idle, loop (at the head of the loop over addrList), done
    pdP,          \* p: trimUsd, addUsd, newUsd, maxHits
    pdAddrs,      \* addrList
    pdIdx,        \* entries of addrList the loop has finished
    pdFills,      \* fills received so far, over all wallets
    results,      \* const results
    pdOut,        \* what runPositionDeltaPulse returned
    \* ---- runLiquidationSweep, from the return of aggregateLiquidations on
    swPc,         \* idle, aggregated, done
    liqAgg,       \* const liqAgg, entries in insertion order
    swOut,        \* what runLiquidationSweep returned
    \* ---- runCompressionRadar({ addrList }, p), from the candles' arrival on
    crPc,         \* idle, candles (reshape loop), flows (aggregation loop), done
    crP,          \* p: rangeBp, netBuildUsd, minWallets, minTicks
    coinStats,    \* const coinStats, entries in insertion order
    crCandles,    \* candles taken so far
    flow,         \* const flow, entries in insertion order
    crWallets,    \* entries of fillsResp folded so far
    crOut,        \* what runCompressionRadar returned
    \* ---- one slot of cached(fn, ttlMs) and the calls of the function it returns
    now,          \* Date.now()
    value,        \* let value: 0 for undefined, else the number of the fetch it came from
    expiry,       \* let expiry
    cPc,          \* per caller: idle, fetching (awaiting fn), done
    cFetch,       \* per caller: the number of the fetch it awaits or awaited, 0 for none
    cGot,         \* per caller: what its call returned (a value) or -1 if it threw
    nFetch,       \* invocations of fn so far
    advances,     \* clock advances so far
    lastOk,       \* the latest fetch that succeeded: its number and completion time
    lastCall,     \* the latest call: when it came and what the slot held then
    lastEv,       \* the latest step: none, call, ok, fail, tick
    \* ---- walletSummary's batch loop over a long list
    wsPc,         \* idle, start, fetching, done
    wsList,       \* addrList
    batches,      \* const batches
    wsNo,         \* the batch the loop is at
    wsSt,         \* per task of that batch: queued, running, done
    wsRaw,        \* the addresses of fillsRaw's entries
    issued,       \* the wallets whose fetch has been issued, in order
    settled,      \* the wallets whose fetch has settled
    \* ---- the liquidation window of the sweep and the sniper
    lwPc,         \* idle, start, queried
    lwWho,        \* the detector that ran
    lwParam,      \* its window parameter
    lwEnd,        \* const end = Date.now()
    lwStart,      \* const start / startLiq
    lwQuery,      \* the body posted by fetchLiquidations
    \* ---- scatter and join in runTrendBias and runDivergence
    sjPc,         \* idle, start, fetching, done
    sjAddrs,      \* addrList
    sjUp,         \* what the exchange answers for each wallet of the list
    sjSt,         \* per task: queued, running, done
    sjOrder,      \* the tasks in the order they completed
    sjResp,       \* the array Promise.all fills: fillsResp
    sjAgg,        \* runTrendBias' agg
    sjBook,       \* runDivergence's book
    \* ---- runLiquidationSniper
    snPc,         \* idle, start, fills, done
    snP,          \* its parameters
    snLiq,        \* liqAgg
    snResp,       \* fillsResp
    snFills,      \* fills in fillsResp so far
    snOut,        \* the value returned
    \* ---- runOpenInterestPulse
    oiPc,         \* idle, start, fills, done
    oiP,          \* its parameters
    oiHist,       \* data of the openInterestHistory response
    oiResp,       \* fillsResp
    oiFills,      \* fills in fillsResp so far
    oiFlow,       \* const flow
    oiOut,        \* the value returned
    \* ---- analyseFills
    afPc,         \* idle, start, done
    afFills,      \* the fills it was given
    afOut         \* const out, returned

limVars == <<max, active, q, status, outcome, callerResult, submitted>>
postVars == <<pc, i, resps, slept, hlResult, liqPc, events, out, liqError>>

foldVars == <<foldAddrs, inWallet, nFills, fsAgg, tbAgg, perCoin, last>>
callVars == <<callPc, input, addrList, requests, fetchSt, fetchResp, batchNo, fillsBatch,
              fillsRaw, summary, callResult>>

divVars == <<divPc, divP, book, divFills, divOut, divSides>>

pdVars == <<pdPc, pdP, pdAddrs, pdIdx, pdFills, results, pdOut>>

swVars == <<swPc, liqAgg, swOut>>

crVars == <<crPc, crP, coinStats, crCandles, flow, crWallets, crOut>>

cacheVars == <<now, value, expiry, cPc, cFetch, cGot, nFetch, advances, lastOk, lastCall,
               lastEv>>

wsVars == <<wsPc, wsList, batches, wsNo, wsSt, wsRaw, issued, settled>>

lwVars == <<lwPc, lwWho, lwParam, lwEnd, lwStart, lwQuery>>

sjVars == <<sjPc, sjAddrs, sjUp, sjSt, sjOrder, sjResp, sjAgg, sjBook>>

snVars == <<snPc, snP, snLiq, snResp, snFills, snOut>>

oiVars == <<oiPc, oiP, oiHist, oiResp, oiFills, oiFlow, oiOut>>

afVars == <<afPc, afFills, afOut>>

vars == <<limVars, postVars, foldVars, callVars, divVars, pdVars, swVars, crVars,
          cacheVars, wsVars, lwVars, sjVars, snVars, oiVars, afVars>>

\* what the actions of one part leave alone
notLim == <<postVars, foldVars, callVars, divVars, pdVars, swVars, crVars, cacheVars,
            wsVars, lwVars, sjVars, snVars, oiVars, afVars>>
notPost == <<limVars, foldVars, callVars, divVars, pdVars, swVars, crVars, cacheVars,
             wsVars, lwVars, sjVars, snVars, oiVars, afVars>>
notFold == <<limVars, postVars, callVars, divVars, pdVars, swVars, crVars, cacheVars,
             wsVars, lwVars, sjVars, snVars, oiVars, afVars>>
notCall == <<limVars, postVars, foldVars, divVars, pdVars, swVars, crVars, cacheVars,
             wsVars, lwVars, sjVars, snVars, oiVars, afVars>>
notDiv == <<limVars, postVars, foldVars, callVars, pdVars, swVars, crVars, cacheVars,
            wsVars, lwVars, sjVars, snVars, oiVars, afVars>>
notPd == <<limVars, postVars, foldVars, callVars, divVars, swVars, crVars, cacheVars,
           wsVars, lwVars, sjVars, snVars, oiVars, afVars>>
notSw == <<limVars, postVars, foldVars, callVars, divVars, pdVars, crVars, cacheVars,
           wsVars, lwVars, sjVars, snVars, oiVars, afVars>>
notCr == <<limVars, postVars, foldVars, callVars, divVars, pdVars, swVars, cacheVars,
           wsVars, lwVars, sjVars, snVars, oiVars, afVars>>
notCache == <<limVars, postVars, foldVars, callVars, divVars, pdVars, swVars, crVars,
              wsVars, lwVars, sjVars, snVars, oiVars, afVars>>
notWs == <<limVars, postVars, foldVars, callVars, divVars, pdVars, swVars, crVars,
           cacheVars, lwVars, sjVars, snVars, oiVars, afVars>>
notLw == <<limVars, postVars, foldVars, callVars, divVars, pdVars, swVars, crVars,
           cacheVars, wsVars, sjVars, snVars, oiVars, afVars>>
notSj == <<limVars, postVars, foldVars, callVars, divVars, pdVars, swVars, crVars,
           cacheVars, wsVars, lwVars, snVars, oiVars, afVars>>
notSn == <<limVars, postVars, foldVars, callVars, divVars, pdVars, swVars, crVars,
           cacheVars, wsVars, lwVars, sjVars, oiVars, afVars>>
notOi == <<limVars, postVars, foldVars, callVars, divVars, pdVars, swVars, crVars,
           cacheVars, wsVars, lwVars, sjVars, snVars, afVars>>
notAf == <<limVars, postVars, foldVars, callVars, divVars, pdVars, swVars, crVars,
           cacheVars, wsVars, lwVars, sjVars, snVars, oiVars>>

(***************************************************************************)
(* 1. limiter                                                              *)
(***************************************************************************)
\* the shared gateway pool: const limit = limiter(6)
GatewayMax == 6
\* the other limits a limiter is created with in the model: 1..MaxLimit
MaxLimit == 3
\* tasks handed to a limiter beyond its limit
ExtraTasks == 2

Limits == (1..MaxLimit) \cup {GatewayMax}
Tasks == 1..(GatewayMax + MaxLimit + ExtraTasks)
\* the gateway pool gets one task more than its limit, the small pools
\* ExtraTasks more
NTasks == IF max = GatewayMax THEN GatewayMax + 1 ELSE max + ExtraTasks

\* function next() of limiter, as a state transformer on (active, q, status)
nextLifo(a, qq, st) ==
    IF a >= max \/ Len(qq) = 0
    THEN [active |-> a, q |-> qq, status |-> st]
    ELSE [active |-> a + 1,
          q      |-> SubSeq(qq, 1, Len(qq) - 1),
          status |-> [st EXCEPT ![qq[Len(qq)]] = "running"]]

nextNoGuard(a, qq, st) ==
    IF Len(qq) = 0
    THEN [active |-> a, q |-> qq, status |-> st]
    ELSE [active |-> a + 1,
          q      |-> Tail(qq),
          status |-> [st EXCEPT ![Head(qq)] = "running"]]

next(a, qq, st) ==
    IF a >= max \/ Len(qq) = 0
    THEN [active |-> a, q |-> qq, status |-> st]
    ELSE [active |-> a + 1,
          q      |-> Tail(qq),
          status |-> [st EXCEPT ![Head(qq)] = "running"]]

\* .finally(() => { active--; next(); }) of a task that settled with outcome o
finallyOnlyAfterFulfil(o, a, qq, st) ==
    IF o = "ok" THEN next(a - 1, qq, st) ELSE [active |-> a, q |-> qq, status |-> st]
settledFinally(o, a, qq, st) == next(a - 1, qq, st)

LimIdle ==
    /\ max = 1
    /\ active = 0
    /\ q = <<>>
    /\ status = [t \in Tasks |-> "new"]
    /\ outcome = [t \in Tasks |-> "none"]
    /\ callerResult = [t \in Tasks |-> "pending"]
    /\ submitted = 0

LimInit ==
    /\ max \in Limits
    /\ active = 0
    /\ q = <<>>
    /\ status = [t \in Tasks |-> "new"]
    /\ outcome = [t \in Tasks |-> "none"]
    /\ callerResult = [t \in Tasks |-> "pending"]
    /\ submitted = 0

\* limit(fn): q.push({fn,res,rej}); next()
Submit ==
    /\ submitted < NTasks
    /\ LET t == submitted + 1
           n == next(active, Append(q, t), [status EXCEPT ![t] = "queued"])
       IN /\ active' = n.active
          /\ q' = n.q
          /\ status' = n.status
    /\ submitted' = submitted + 1
    /\ UNCHANGED <<max, outcome, callerResult>>
    /\ UNCHANGED notLim

\* the promise returned by fn() settles (fulfils or rejects)
Settle(t) ==
    /\ status[t] = "running"
    /\ \E o \in {"ok", "fail"} : outcome' = [outcome EXCEPT ![t] = o]
    /\ status' = [status EXCEPT ![t] = "settled"]
    /\ UNCHANGED <<max, active, q, callerResult, submitted>>
    /\ UNCHANGED notLim

\* .then(res).catch(rej): the caller's promise takes the task's outcome
Deliver(t) ==
    /\ status[t] = "settled"
    /\ callerResult' = [callerResult EXCEPT ![t] = outcome[t]]
    /\ status' = [status EXCEPT ![t] = "delivered"]
    /\ UNCHANGED <<max, active, q, outcome, submitted>>
    /\ UNCHANGED notLim

\* .finally(() => { active--; next(); })
Release(t) ==
    /\ status[t] = "delivered"
    /\ LET n == settledFinally(outcome[t], active, q, [status EXCEPT ![t] = "released"])
       IN /\ active' = n.active
          /\ q' = n.q
          /\ status' = n.status
    /\ UNCHANGED <<max, outcome, callerResult, submitted>>
    /\ UNCHANGED notLim

\* the limits of the limiters whose every behaviour is followed to its end
MaxLiveLimit == 2

LimNext ==
    \/ Submit
    \/ \E t \in Tasks : Settle(t)
    \/ \E t \in Tasks : Deliver(t)
    \/ \E t \in Tasks : Release(t)

(***************************************************************************)
(* 2. hlPost, fetchLiquidations, aggregateLiquidations                     *)
(***************************************************************************)
\* events of one liquidation response: at most MaxEvents
MaxEvents == 2

NoError == [status |-> 0, code |-> "none"]
\* what axios.post rejects with: e.response?.status (0: no response) and e.code
Errors ==
    { [status |-> 429, code |-> "ERR_BAD_REQUEST"],
      [status |-> 0,   code |-> "ECONNABORTED"],
      [status |-> 422, code |-> "ERR_BAD_REQUEST"],
      [status |-> 400, code |-> "ERR_BAD_REQUEST"],
      [status |-> 500, code |-> "ERR_BAD_RESPONSE"],
      [status |-> 0,   code |-> "ECONNRESET"] }

Coins == {"BTC", "ETH"}
\* a liquidation event as the exchange sends it; sz is signed, px positive
LiqEvents == [coin : Coins, side : {"long", "short"}, sz : {-2, 3}, px : {5}]

SeqsUpTo(S, n) == UNION { [1..k -> S] : k \in 0..n }

\* data of a 2xx response to { type: "liquidations" }: data.events is a list
\* or missing
NoEvents == [hasEvents |-> FALSE, events |-> <<>>]
LiqPayloads ==
    {NoEvents} \cup {[hasEvents |-> TRUE, events |-> s] : s \in SeqsUpTo(LiqEvents, MaxEvents)}

Responses ==
    [ok : {TRUE}, data : LiqPayloads, err : {NoError}]
        \cup [ok : {FALSE}, data : {NoEvents}, err : Errors]

Abs(x) == IF x < 0 THEN -x ELSE x

\* const shouldBackoff = e.response?.status === 429 || e.code === "ECONNABORTED"
shouldBackoff(e) == e.status = 429 \/ e.code = "ECONNABORTED"

\* hlPost's default: retries = 3
Retries == 3
\* the backoff unit: 500 * (i + 1)
BackoffMs == 500

backoffConstant(k) == BackoffMs

backoff(k) == BackoffMs * (k + 1)

Pending == [kind |-> "pending", data |-> NoEvents, err |-> NoError]

PostIdle ==
    /\ pc = "idle"
    /\ i = 0
    /\ resps = <<>>
    /\ slept = <<>>
    /\ hlResult = Pending
    /\ liqPc = "idle"
    /\ events = <<>>
    /\ out = <<>>
    /\ liqError = NoError

\* aggregateLiquidations(start, end) has called fetchLiquidations, which has
\* called hlPost, which is about to make its first axios.post
PostInit ==
    /\ pc = "attempt"
    /\ i = 0
    /\ resps = <<>>
    /\ slept = <<>>
    /\ hlResult = Pending
    /\ liqPc = "fetching"
    /\ events = <<>>
    /\ out = <<>>
    /\ liqError = NoError

\* one iteration of hlPost's loop: axios.post settles with r; on success the
\* call returns, on failure the catch block runs
Attempt ==
    /\ pc = "attempt"
    /\ \E r \in Responses :
          /\ resps' = Append(resps, r)
          /\ IF r.ok
             THEN /\ hlResult' = [kind |-> "return", data |-> r.data, err |-> NoError]
                  /\ pc' = "done"
                  /\ UNCHANGED <<i, slept>>
             ELSE IF i = Retries - 1
             THEN /\ hlResult' = [kind |-> "throw", data |-> NoEvents, err |-> r.err]
                  /\ pc' = "done"
                  /\ UNCHANGED <<i, slept>>
             ELSE /\ slept' = Append(slept, IF shouldBackoff(r.err) THEN backoff(i) ELSE 0)
                  /\ pc' = IF shouldBackoff(r.err) THEN "sleep" ELSE "attempt"
                  /\ i' = i + 1
                  /\ UNCHANGED hlResult
    /\ UNCHANGED <<liqPc, events, out, liqError>>
    /\ UNCHANGED notPost

\* the backoff timer fires and the loop goes on to its next iteration
Wake ==
    /\ pc = "sleep"
    /\ pc' = "attempt"
    /\ UNCHANGED <<i, resps, slept, hlResult, liqPc, events, out, liqError>>
    /\ UNCHANGED notPost

\* fetchLiquidations' try/catch around hlPost: what it returns or throws
fetchLiquidationsRethrow(r) ==
    IF r.kind = "return"
    THEN [kind |-> "return", events |-> IF r.data.hasEvents THEN r.data.events ELSE <<>>,
          err |-> NoError]
    ELSE [kind |-> "throw", events |-> <<>>, err |-> r.err]

fetchLiquidationsResult(r) ==
    IF r.kind = "return"
    THEN [kind |-> "return", events |-> IF r.data.hasEvents THEN r.data.events ELSE <<>>,
          err |-> NoError]
    ELSE IF r.err.status = 422
    THEN [kind |-> "return", events |-> <<>>, err |-> NoError]
    ELSE [kind |-> "throw", events |-> <<>>, err |-> r.err]

\* hlPost has settled: fetchLiquidations returns its events to
\* aggregateLiquidations, or its error passes through both to the caller
FetchLiquidations ==
    /\ pc = "done"
    /\ liqPc = "fetching"
    /\ LET f == fetchLiquidationsResult(hlResult)
       IN /\ events' = f.events
          /\ liqError' = f.err
          /\ liqPc' = IF f.kind = "return" THEN "fetched" ELSE "failed"
    /\ UNCHANGED <<pc, i, resps, slept, hlResult, out>>
    /\ UNCHANGED notPost

\* the entries of an object in insertion order: <<[coin, longs, shorts], ...>>
HasCoin(o, c) == \E k \in 1..Len(o) : o[k].coin = c
CoinIndex(o, c) == CHOOSE k \in 1..Len(o) : o[k].coin = c

\* the loop body of aggregateLiquidations for one event
addLiquidation(o, ev) ==
    LET notional == Abs(ev.sz) * ev.px
        o1 == IF HasCoin(o, ev.coin) THEN o
              ELSE Append(o, [coin |-> ev.coin, longs |-> 0, shorts |-> 0])
        k == CoinIndex(o1, ev.coin)
    IN IF ev.side = "long"
       THEN [o1 EXCEPT ![k].longs = @ + notional]
       ELSE [o1 EXCEPT ![k].shorts = @ + notional]

RECURSIVE aggregateLiquidationsFold(_, _)
aggregateLiquidationsFold(evs, o) ==
    IF evs = <<>> THEN o
    ELSE aggregateLiquidationsFold(Tail(evs), addLiquidation(o, Head(evs)))

\* aggregateLiquidations folds the events it was given and returns out
AggregateLiquidations ==
    /\ liqPc = "fetched"
    /\ out' = aggregateLiquidationsFold(events, <<>>)
    /\ liqPc' = "done"
    /\ UNCHANGED <<pc, i, resps, slept, hlResult, events, liqError>>
    /\ UNCHANGED notPost

PostNext ==
    \/ Attempt
    \/ Wake
    \/ FetchLiquidations
    \/ AggregateLiquidations

(***************************************************************************)
(* 3. the net-notional folds (runFlowSweep, runTrendBias)                  *)
(***************************************************************************)
\* entries of fillsResp folded in one call: at most MaxWallets
MaxWallets == 2
\* fills in all entries of fillsResp together: at most MaxFills
MaxFills == 3

\* the addresses a caller may list (a list may repeat one)
Wallets == {"0xA", "0xB"}
\* f.dir as the exchange sends it; "Buy" is a spot fill, neither Open nor Close
Dirs == {"Open Long", "Open Short", "Close Long", "Close Short", "Buy"}
Fills == [coin : Coins, dir : Dirs, sz : {-2, 3}, px : {5}]

\* f.dir.includes("Long"), f.dir.startsWith("Close"), f.dir.startsWith("Open")
includesLong(d) == d \in {"Open Long", "Close Long"}
startsWithClose(d) == d \in {"Close Long", "Close Short"}
startsWithOpen(d) == d \in {"Open Long", "Open Short"}

\* const n = Math.abs(+f.sz) * +f.px
notional(f) == Abs(f.sz) * f.px

signIgnoresAction(d) == IF includesLong(d) THEN 1 ELSE -1

\* runFlowSweep: const sign
sign(d) ==
    IF includesLong(d)
    THEN (IF startsWithClose(d) THEN -1 ELSE 1)
    ELSE (IF startsWithClose(d) THEN 1 ELSE -1)

\* runTrendBias: const sign
signTrendBias(d) ==
    IF includesLong(d)
    THEN (IF startsWithClose(d) THEN -1 ELSE 1)
    ELSE (IF startsWithClose(d) THEN 1 ELSE -1)

\* an object keyed by address, entries in insertion order
HasAddr(w, a) == \E k \in 1..Len(w) : w[k].addr = a
AddrIndex(w, a) == CHOOSE k \in 1..Len(w) : w[k].addr = a

\* runFlowSweep's loop body for fill f of the entry of wallet a
addFlowSweepAssign(agg, a, f) ==
    LET d == notional(f) * sign(f.dir)
        a1 == IF HasCoin(agg, f.coin) THEN agg
              ELSE Append(agg, [coin |-> f.coin, net |-> 0, wallets |-> <<>>])
        k == CoinIndex(a1, f.coin)
        w == a1[k].wallets
        w1 == IF HasAddr(w, a)
              THEN [w EXCEPT ![AddrIndex(w, a)].flow = d]
              ELSE Append(w, [addr |-> a, flow |-> d])
    IN [a1 EXCEPT ![k].net = @ + d, ![k].wallets = w1]

addFlowSweep(agg, a, f) ==
    LET d == notional(f) * sign(f.dir)
        a1 == IF HasCoin(agg, f.coin) THEN agg
              ELSE Append(agg, [coin |-> f.coin, net |-> 0, wallets |-> <<>>])
        k == CoinIndex(a1, f.coin)
        w == a1[k].wallets
        w1 == IF HasAddr(w, a)
              THEN [w EXCEPT ![AddrIndex(w, a)].flow = @ + d]
              ELSE Append(w, [addr |-> a, flow |-> d])
    IN [a1 EXCEPT ![k].net = @ + d, ![k].wallets = w1]

\* runTrendBias' inner loop body: perCoin[f.coin] = (perCoin[f.coin] || 0) + n * sign
addPerCoin(pcn, f) ==
    LET d == notional(f) * signTrendBias(f.dir)
    IN IF HasCoin(pcn, f.coin)
       THEN [pcn EXCEPT ![CoinIndex(pcn, f.coin)].delta = @ + d]
       ELSE Append(pcn, [coin |-> f.coin, delta |-> d])

\* runTrendBias' second loop body for one [coin, delta] of perCoin
mergeDelta(agg, a, e) ==
    LET a1 == IF HasCoin(agg, e.coin) THEN agg
              ELSE Append(agg, [coin |-> e.coin, net |-> 0, wallets |-> {}, details |-> <<>>])
        k == CoinIndex(a1, e.coin)
        dt == a1[k].details
        dt1 == IF HasAddr(dt, a)
               THEN [dt EXCEPT ![AddrIndex(dt, a)].delta = e.delta]
               ELSE Append(dt, [addr |-> a, delta |-> e.delta])
    IN [a1 EXCEPT ![k].net = @ + e.delta,
                  ![k].wallets = @ \cup {a},
                  ![k].details = dt1]

RECURSIVE mergePerCoin(_, _, _)
mergePerCoin(agg, a, pcn) ==
    IF pcn = <<>> THEN agg
    ELSE mergePerCoin(mergeDelta(agg, a, Head(pcn)), a, Tail(pcn))

\* agg[coin].net, 0 while agg has no entry for the coin
NetOf(agg, c) == IF HasCoin(agg, c) THEN agg[CoinIndex(agg, c)].net ELSE 0
DeltaOf(pcn, c) == IF HasCoin(pcn, c) THEN pcn[CoinIndex(pcn, c)].delta ELSE 0
FlowOf(agg, c, a) ==
    IF HasCoin(agg, c) /\ HasAddr(agg[CoinIndex(agg, c)].wallets, a)
    THEN LET w == agg[CoinIndex(agg, c)].wallets IN w[AddrIndex(w, a)].flow
    ELSE 0

NoFill == [coin |-> "none", dir |-> "none", sz |-> 0, px |-> 0]
NoStep == [kind |-> "none", fill |-> NoFill, fsNet |-> 0, fsFlow |-> 0, tbDelta |-> 0]

FoldIdle ==
    /\ foldAddrs = <<>>
    /\ inWallet = FALSE
    /\ nFills = 0
    /\ fsAgg = <<>>
    /\ tbAgg = <<>>
    /\ perCoin = <<>>
    /\ last = NoStep

\* fillsResp has been gathered; both folds start with an empty agg
FoldInit == FoldIdle

curAddr == foldAddrs[Len(foldAddrs)]

\* for (const r of fillsResp): the outer loops take the next entry, of wallet a
BeginWallet ==
    /\ ~inWallet
    /\ Len(foldAddrs) < MaxWallets
    /\ \E a \in Wallets : foldAddrs' = Append(foldAddrs, a)
    /\ inWallet' = TRUE
    /\ perCoin' = <<>>
    /\ last' = NoStep
    /\ UNCHANGED <<nFills, fsAgg, tbAgg>>
    /\ UNCHANGED notFold

\* for (const f of r.fills): both inner loops fold the next fill of the entry
FoldFill ==
    /\ inWallet
    /\ nFills < MaxFills
    /\ \E f \in Fills :
          /\ fsAgg' = addFlowSweep(fsAgg, curAddr, f)
          /\ perCoin' = addPerCoin(perCoin, f)
          /\ last' = [kind |-> "fill", fill |-> f,
                      fsNet |-> NetOf(fsAgg', f.coin) - NetOf(fsAgg, f.coin),
                      fsFlow |-> FlowOf(fsAgg', f.coin, curAddr) - FlowOf(fsAgg, f.coin, curAddr),
                      tbDelta |-> DeltaOf(perCoin', f.coin) - DeltaOf(perCoin, f.coin)]
    /\ nFills' = nFills + 1
    /\ UNCHANGED <<foldAddrs, inWallet, tbAgg>>
    /\ UNCHANGED notFold

\* r.fills is exhausted: runTrendBias merges perCoin into agg
EndWallet ==
    /\ inWallet
    /\ tbAgg' = mergePerCoin(tbAgg, curAddr, perCoin)
    /\ inWallet' = FALSE
    /\ last' = NoStep
    /\ UNCHANGED <<foldAddrs, nFills, fsAgg, perCoin>>
    /\ UNCHANGED notFold

FoldNext ==
    \/ BeginWallet
    \/ FoldFill
    \/ EndWallet

(***************************************************************************)
(* 4. HyperliquidAPI._call                                                 *)
(***************************************************************************)
\* addresses in one call: at most MaxAddrs
MaxAddrs == 2

\* an address string, by what ETH_RE reads of it: its first two characters,
\* how many characters follow them and whether all of those are hex digits
AddrStrings ==
    { [id |-> "a1", prefix |-> "0x", digits |-> 40, hex |-> TRUE],
      [id |-> "a2", prefix |-> "0x", digits |-> 40, hex |-> TRUE],
      [id |-> "short", prefix |-> "0x", digits |-> 39, hex |-> TRUE],
      [id |-> "long", prefix |-> "0x", digits |-> 41, hex |-> TRUE],
      [id |-> "nothex", prefix |-> "0x", digits |-> 40, hex |-> FALSE],
      [id |-> "upper", prefix |-> "0X", digits |-> 40, hex |-> TRUE] }

ETH_RE_AtLeast40(a) == a.prefix = "0x" /\ a.digits >= 40 /\ a.hex

\* const ETH_RE = /^0x[0-9a-fA-F]{40}$/ : ETH_RE.test(a)
ETH_RE(a) == a.prefix = "0x" /\ a.digits = 40 /\ a.hex

\* the keys of const strategies
Strategies ==
    {"tickerLookup", "topMoverPulse", "microFlowPulse", "flowSweep",
     "liquidationSweep", "divergenceRadar", "liquidationSniper",
     "compressionRadar", "trendBias", "openInterestPulse", "positionDeltaPulse"}
\* runFlowSweep and runLiquidationSweep are declared inside runTopMover's
\* body: the names are not bound where the registry's arrows run, and
\* calling them throws a ReferenceError
NotInScope == {"flowSweep", "liquidationSweep"}
\* the strategies that await one query outside any try/catch before the
\* per-wallet fetches, and the type of that query
PreQueryOf ==
    [m \in {"tickerLookup", "liquidationSniper", "compressionRadar", "openInterestPulse"} |->
        CASE m = "tickerLookup" -> "meta"
          [] m = "liquidationSniper" -> "liquidations"
          [] m = "compressionRadar" -> "candles"
          [] m = "openInterestPulse" -> "openInterestHistory"]
Modes == Strategies \cup {"walletSummary", "bogus"}

\* the arguments of _call that its control flow reads. positions is read by
\* walletSummary only and ticker by tickerLookup only, so the other modes
\* get one value of each; addresses passed along with useBrowse or useSheet
\* are overwritten by the import, which a list of one address shows
Inputs ==
    { inp \in [mode : Modes, addresses : SeqsUpTo(AddrStrings, MaxAddrs),
               useBrowse : BOOLEAN, useSheet : BOOLEAN, positions : BOOLEAN,
               hasTicker : BOOLEAN] :
        /\ (inp.useBrowse \/ inp.useSheet) => Len(inp.addresses) <= 1
        /\ inp.mode # "walletSummary" => ~inp.positions
        /\ inp.mode # "tickerLookup" => inp.hasTicker }

NoResult == [kind |-> "pending", msg |-> "none", bad |-> <<>>, cause |-> "none"]
Returned(msg) == [kind |-> "returned", msg |-> msg, bad |-> <<>>, cause |-> "none"]
InvalidAddresses(bad) ==
    [kind |-> "returned", msg |-> "Invalid address(es)", bad |-> bad, cause |-> "none"]
Rejected(cause) == [kind |-> "rejected", msg |-> "none", bad |-> <<>>, cause |-> cause]

\* insight thresholds
BIG_NOTIONAL == 50000
DRIP_COUNT == 15
DRIP_SIZE == 500
MAX_FILLS == 400
\* chunk(addrList, 20)
ChunkSize == 20

\* the fills a userFillsByTime response may hold
CloseLongBig == [coin |-> "BTC", dir |-> "Close Long", sz |-> -10000, px |-> 12]
OpenShortBig == [coin |-> "BTC", dir |-> "Open Short", sz |-> -5000, px |-> 12]
CloseShortSmall == [coin |-> "ETH", dir |-> "Close Short", sz |-> 3, px |-> 5]
\* data of a 2xx response to userFillsByTime: null, or a list of fills
FillPayloads ==
    { [isNull |-> TRUE, fills |-> <<>>],
      [isNull |-> FALSE, fills |-> <<CloseShortSmall, CloseLongBig, OpenShortBig>>] }
NoPayload == [isNull |-> TRUE, fills |-> <<>>]

\* what the catch block reads of the error hlPost threw: e.response ?
\* JSON.stringify(e.response.data) : e.message
NoMsg == [json |-> FALSE, text |-> ""]
FetchErrors ==
    { [hasResponse |-> TRUE, text |-> "rate limited"],
      [hasResponse |-> FALSE, text |-> "timeout of 6000ms exceeded"] }
NoFetchError == [hasResponse |-> FALSE, text |-> ""]
errorMsg(e) == [json |-> e.hasResponse, text |-> e.text]

\* what the hlPost of one wallet's userFillsByTime query ends with
FillResponses ==
    [ok : {TRUE}, data : FillPayloads, err : {NoFetchError}]
        \cup [ok : {FALSE}, data : {NoPayload}, err : FetchErrors]
NoResponse == [ok |-> FALSE, data |-> NoPayload, err |-> NoFetchError]

\* arr.slice(-n)
sliceLast(arr, n) == IF Len(arr) <= n THEN arr ELSE SubSeq(arr, Len(arr) - n + 1, Len(arr))

NoInsights == [profitTakes |-> <<>>, flips |-> <<>>, newBuilds |-> <<>>, dripStyle |-> FALSE]

\* f.coin.toUpperCase(), for the names the exchange and its users write
toUpperCase(c) == IF c = "btc" THEN "BTC" ELSE IF c = "eth" THEN "ETH" ELSE c

\* the fills that set lastSide[coin]: the Close branch and the Open branch
recordsSideOpenOnly(d) == startsWithOpen(d)
recordsSide(d) == startsWithClose(d) \/ startsWithOpen(d)

\* analyseFills' loop body; sz and px are kept as numbers (big$ formats them)
analyseStep(st, f) ==
    LET coin == toUpperCase(f.coin)
        n == Abs(f.sz) * f.px
        sideWord == IF includesLong(f.dir) THEN "long" ELSE "short"
        prev == st.lastSide[coin]
        o == st.out
        o1 == IF startsWithClose(f.dir) /\ n >= BIG_NOTIONAL
              THEN [o EXCEPT !.profitTakes =
                       Append(@, [coin |-> coin, dir |-> f.dir, sz |-> f.sz, px |-> f.px])]
              ELSE o
        o2 == IF startsWithOpen(f.dir) /\ prev # "none" /\ prev # sideWord /\ n >= BIG_NOTIONAL
              THEN [o1 EXCEPT !.flips =
                       Append(@, [coin |-> coin, from |-> prev, to |-> sideWord,
                                  sz |-> f.sz, px |-> f.px])]
              ELSE o1
        o3 == IF startsWithOpen(f.dir) /\ n >= BIG_NOTIONAL
              THEN [o2 EXCEPT !.newBuilds =
                       Append(@, [coin |-> coin, dir |-> f.dir, sz |-> f.sz, px |-> f.px])]
              ELSE o2
    IN [out |-> o3,
        lastSide |-> IF recordsSide(f.dir)
                     THEN [st.lastSide EXCEPT ![coin] = sideWord]
                     ELSE st.lastSide]

RECURSIVE analyseLoop(_, _)
analyseLoop(st, fills) ==
    IF fills = <<>> THEN st ELSE analyseLoop(analyseStep(st, Head(fills)), Tail(fills))

\* analyseFills(fills)
analyseFills(fills) ==
    LET st == analyseLoop([out |-> NoInsights, lastSide |-> [c \in Coins |-> "none"]], fills)
        tinyCloses == SelectSeq(fills, LAMBDA f : startsWithClose(f.dir)
                                                   /\ Abs(f.sz) * f.px <= DRIP_SIZE)
    IN [st.out EXCEPT !.dripStyle = Len(tinyCloses) >= DRIP_COUNT]

NoAddr == [id |-> "none", prefix |-> "", digits |-> 0, hex |-> FALSE]
\* an element of fillsBatch, fillsRaw and summary; NoEntry is an empty slot
NoEntry ==
    [address |-> NoAddr, error |-> NoMsg, hasFills |-> FALSE, fills |-> <<>>,
     truncated |-> FALSE, hasInsights |-> FALSE, insights |-> NoInsights,
     openPositions |-> "absent"]

\* the task handed to limit() for one wallet: its try block and its catch
walletEntry(addr, resp) ==
    IF resp.ok
    THEN [NoEntry EXCEPT !.address = addr, !.hasFills = TRUE,
                         !.fills = sliceLast(resp.data.fills, MAX_FILLS),
                         !.truncated = Len(resp.data.fills) > MAX_FILLS]
    ELSE [NoEntry EXCEPT !.address = addr, !.error = errorMsg(resp.err)]

\* Promise.all: the value of the k-th promise becomes the k-th element
placeResultInCompletionOrder(fb, k, entry) ==
    LET free == CHOOSE j \in 1..Len(fb) :
                    fb[j] = NoEntry /\ \A h \in 1..(j - 1) : fb[h] # NoEntry
    IN [fb EXCEPT ![free] = entry]

placeResult(fb, k, entry) == [fb EXCEPT ![k] = entry]

\* fillsRaw.map's callback, up to its await
summaryEntry(r, positions) ==
    IF r.error # NoMsg THEN r
    ELSE [r EXCEPT !.hasInsights = TRUE, !.insights = analyseFills(r.fills),
                   !.openPositions = IF positions THEN "pending" ELSE "absent"]

Min(a, b) == IF a <= b THEN a ELSE b
\* chunk(arr, size), as the index ranges of its batches
NBatches(n, size) == (n + size - 1) \div size
BatchFirst(b, size) == (b - 1) * size + 1
BatchLast(b, n, size) == Min(b * size, n)
BatchIdx(b, n) == BatchFirst(b, ChunkSize)..BatchLast(b, n, ChunkSize)

CallIdle ==
    /\ callPc = "idle"
    /\ input = [mode |-> "walletSummary", addresses |-> <<>>, useBrowse |-> FALSE,
                useSheet |-> FALSE, positions |-> FALSE, hasTicker |-> FALSE]
    /\ addrList = <<>>
    /\ requests = 0
    /\ fetchSt = <<>>
    /\ fetchResp = <<>>
    /\ batchNo = 0
    /\ fillsBatch = <<>>
    /\ fillsRaw = <<>>
    /\ summary = <<>>
    /\ callResult = NoResult

\* _call(raw) has been invoked and has not run yet
CallInit ==
    /\ callPc = "start"
    /\ input \in Inputs
    /\ addrList = <<>>
    /\ requests = 0
    /\ fetchSt = <<>>
    /\ fetchResp = <<>>
    /\ batchNo = 0
    /\ fillsBatch = <<>>
    /\ fillsRaw = <<>>
    /\ summary = <<>>
    /\ callResult = NoResult

Done(result) ==
    /\ callPc' = "done"
    /\ callResult' = result

\* the tasks of batch b are handed to limit(): the first GatewayMax start
StartBatch(list, b, st) ==
    [k \in 1..Len(list) |->
        IF k \in BatchIdx(b, Len(list))
        THEN (IF k - BatchFirst(b, ChunkSize) < GatewayMax THEN "running" ELSE "queued")
        ELSE st[k]]
Started(st) == Cardinality({k \in 1..Len(st) : st[k] = "running"})

\* _call from "const bad = ..." to its next await or return, for the wallet
\* universe list
AfterUniverse(list) ==
    /\ addrList' = list
    /\ LET bad == SelectSeq(list, LAMBDA a : ~ETH_RE(a))
           mode == input.mode
       IN IF Len(list) = 0
          THEN /\ Done(Returned("No wallets to analyse."))
               /\ UNCHANGED <<requests, fetchSt, fetchResp, batchNo, fillsBatch>>
          ELSE IF Len(bad) > 0
          THEN /\ Done(InvalidAddresses(bad))
               /\ UNCHANGED <<requests, fetchSt, fetchResp, batchNo, fillsBatch>>
          ELSE IF mode # "walletSummary"
          THEN /\ UNCHANGED <<fetchSt, fetchResp, batchNo, fillsBatch>>
               /\ IF mode \notin Strategies
                  THEN Done(Returned("unknown mode")) /\ UNCHANGED requests
                  ELSE IF mode \in NotInScope
                  THEN Done(Rejected("ReferenceError")) /\ UNCHANGED requests
                  ELSE IF mode = "tickerLookup" /\ ~input.hasTicker
                  THEN Done(Rejected("TypeError")) /\ UNCHANGED requests
                  ELSE IF mode = "tickerLookup"
                  THEN \* getPerpMeta and getSpotMeta: both cached values fresh, or
                       \* one or both queries posted
                       \/ Done(Returned("result")) /\ UNCHANGED requests
                       \/ /\ callPc' = "prequery"
                          /\ \E n \in 1..2 : requests' = requests + n
                          /\ UNCHANGED callResult
                  ELSE IF mode \in DOMAIN PreQueryOf
                  THEN /\ callPc' = "prequery"
                       /\ requests' = requests + 1
                       /\ UNCHANGED callResult
                  ELSE /\ callPc' = "fills"
                       /\ requests' = requests + (IF mode = "positionDeltaPulse"
                                                  THEN 2 ELSE Min(Len(list), GatewayMax))
                       /\ UNCHANGED callResult
          ELSE /\ batchNo' = 1
               /\ fetchSt' = StartBatch(list, 1, [k \in 1..Len(list) |-> "none"])
               /\ fetchResp' = [k \in 1..Len(list) |-> NoResponse]
               /\ fillsBatch' = [k \in BatchIdx(1, Len(list)) |-> NoEntry]
               /\ requests' = requests + Started(fetchSt')
               /\ callPc' = "fetching"
               /\ UNCHANGED callResult

\* _call runs from its first line to its first await or return
CallStart ==
    /\ callPc = "start"
    /\ IF input.useBrowse \/ input.useSheet \/ Len(input.addresses) = 0
       THEN \* fetchBrowseRows / fetchSheetRows throws at its first line (its
            \* environment settings are missing), or sends its GET request
            /\ addrList' = input.addresses
            /\ \/ Done(Rejected("import not configured"))
               \/ callPc' = "importing" /\ UNCHANGED callResult
            /\ UNCHANGED <<requests, fetchSt, fetchResp, batchNo, fillsBatch>>
       ELSE AfterUniverse(input.addresses)
    /\ UNCHANGED <<input, fillsRaw, summary>>
    /\ UNCHANGED notCall

\* fetchBrowseRows / fetchSheetRows settles: it threw, or it returned rows,
\* whose addresses all match ETH_RE and of which the filter keeps some
ImportSettles ==
    /\ callPc = "importing"
    /\ \/ /\ Done(Rejected("import failed"))
          /\ UNCHANGED <<addrList, requests, fetchSt, fetchResp, batchNo, fillsBatch>>
       \/ \E rows \in SeqsUpTo({a \in AddrStrings : ETH_RE(a)}, MaxAddrs) :
              AfterUniverse(rows)
    /\ UNCHANGED <<input, fillsRaw, summary>>
    /\ UNCHANGED notCall

\* the strategy's unguarded query settles (hlPost returned, or threw e after
\* its retries)
PreQuerySettles ==
    /\ callPc = "prequery"
    /\ LET mode == input.mode
           goOn == /\ callPc' = "fills"
                   /\ requests' = requests + Min(Len(addrList), GatewayMax)
                   /\ UNCHANGED callResult
       IN \/ \E e \in Errors :
                IF PreQueryOf[mode] = "liquidations" /\ fetchLiquidationsResult(
                       [kind |-> "throw", data |-> NoEvents, err |-> e]).kind = "return"
                THEN goOn
                ELSE Done(Rejected(PreQueryOf[mode])) /\ UNCHANGED requests
          \/ IF mode = "tickerLookup"
             THEN Done(Returned("result")) /\ UNCHANGED requests
             ELSE goOn
          \/ /\ mode = "openInterestPulse"
             /\ Done(Returned("no-signal"))
             /\ UNCHANGED requests
    /\ UNCHANGED <<input, addrList, fetchSt, fetchResp, batchNo, fillsBatch, fillsRaw, summary>>
    /\ UNCHANGED notCall

\* the strategy's per-wallet fetches, each inside a try/catch, have all
\* settled and the detector returns its result or its no-signal value
FillsSettle ==
    /\ callPc = "fills"
    /\ \E v \in {"result", "no-signal"} : Done(Returned(v))
    /\ UNCHANGED <<input, addrList, requests, fetchSt, fetchResp, batchNo, fillsBatch,
                   fillsRaw, summary>>
    /\ UNCHANGED notCall

\* walletSummary: the hlPost of wallet k settles, its task returns its entry,
\* and the limiter starts the next waiting task
FetchSettles ==
    /\ callPc = "fetching"
    /\ \E k \in 1..Len(addrList) :
          /\ fetchSt[k] = "running"
          /\ \E r \in FillResponses :
                /\ fetchResp' = [fetchResp EXCEPT ![k] = r]
                /\ fillsBatch' = placeResult(fillsBatch, k - BatchFirst(batchNo, ChunkSize) + 1,
                                             walletEntry(addrList[k], r))
          /\ LET waiting == {j \in 1..Len(addrList) : fetchSt[j] = "queued"}
             IN IF waiting = {}
                THEN /\ fetchSt' = [fetchSt EXCEPT ![k] = "done"]
                     /\ UNCHANGED requests
                ELSE /\ fetchSt' = [fetchSt EXCEPT ![k] = "done",
                                      ![CHOOSE j \in waiting : \A h \in waiting : j <= h] = "running"]
                     /\ requests' = requests + 1
    /\ UNCHANGED <<callPc, input, addrList, batchNo, fillsRaw, summary, callResult>>
    /\ UNCHANGED notCall

\* walletSummary: Promise.all of the batch resolves; fillsRaw.push(...fillsBatch);
\* then the next batch starts, or summary is built
BatchDone ==
    /\ callPc = "fetching"
    /\ \A k \in BatchIdx(batchNo, Len(addrList)) : fetchSt[k] = "done"
    /\ fillsRaw' = fillsRaw \o fillsBatch
    /\ IF batchNo < NBatches(Len(addrList), ChunkSize)
       THEN /\ batchNo' = batchNo + 1
            /\ fetchSt' = StartBatch(addrList, batchNo + 1, fetchSt)
            /\ fillsBatch' = [k \in 1..Cardinality(BatchIdx(batchNo + 1, Len(addrList))) |-> NoEntry]
            /\ requests' = requests + Started(fetchSt')
            /\ UNCHANGED <<callPc, summary, callResult>>
       ELSE /\ summary' = [k \in 1..Len(fillsRaw') |-> summaryEntry(fillsRaw'[k], input.positions)]
            /\ LET pending == {k \in 1..Len(summary') : summary'[k].openPositions = "pending"}
               IN IF pending = {}
                  THEN Done(Returned("summary")) /\ UNCHANGED requests
                  ELSE /\ callPc' = "positions"
                       /\ requests' = requests + Cardinality(pending)
                       /\ UNCHANGED callResult
            /\ UNCHANGED <<batchNo, fetchSt, fillsBatch>>
    /\ UNCHANGED <<input, addrList, fetchResp>>
    /\ UNCHANGED notCall

\* walletSummary: fetchOpenPositions of one wallet settles with a list or,
\* from its catch, with { error }
PositionsSettle ==
    /\ callPc = "positions"
    /\ \E k \in 1..Len(summary) :
          /\ summary[k].openPositions = "pending"
          /\ \E v \in {"list", "error"} : summary' = [summary EXCEPT ![k].openPositions = v]
    /\ UNCHANGED <<callPc, input, addrList, requests, fetchSt, fetchResp, batchNo,
                   fillsBatch, fillsRaw, callResult>>
    /\ UNCHANGED notCall

\* walletSummary: Promise.all of the summary resolves and _call returns it
ReturnSummary ==
    /\ callPc = "positions"
    /\ \A k \in 1..Len(summary) : summary[k].openPositions # "pending"
    /\ Done(Returned("summary"))
    /\ UNCHANGED <<input, addrList, requests, fetchSt, fetchResp, batchNo, fillsBatch,
                   fillsRaw, summary>>
    /\ UNCHANGED notCall

CallNext ==
    \/ CallStart
    \/ ImportSettles
    \/ PreQuerySettles
    \/ FillsSettle
    \/ FetchSettles
    \/ BatchDone
    \/ PositionsSettle
    \/ ReturnSummary

(***************************************************************************)
(* 5. runDivergence                                                        *)
(***************************************************************************)
\* fills of fillsResp folded into book in one call: at most MaxDivFills
MaxDivFills == 3

\* closeNotional / buildNotional: 0 and the default; minClosers / minBuilders:
\* 1 and the default
DivParams ==
    [closeNotional : {0, 50000}, buildNotional : {0, 50000},
     minClosers : {1, 2}, minBuilders : {1, 2}]
\* fills of notional 0 and 100000
DivFillSet ==
    [coin : Coins, dir : {"Open Long", "Close Long", "Close Short", "Buy"},
     sz : {0, -2}, px : {50000}]

\* book[coin][bucket][r.addr] = (book[coin][bucket][r.addr] || 0) + n
addToBucket(b, a, n) ==
    IF HasAddr(b, a)
    THEN [b EXCEPT ![AddrIndex(b, a)].v = @ + n]
    ELSE Append(b, [addr |-> a, v |-> n])

\* the aggregation loop's body for fill f of the entry of wallet a
addDivergence(bk, a, f) ==
    IF ~(startsWithClose(f.dir) \/ startsWithOpen(f.dir))
    THEN bk
    ELSE LET n == Abs(f.sz) * f.px
             side == IF includesLong(f.dir) THEN "long" ELSE "short"
             b1 == IF HasCoin(bk, f.coin) THEN bk
                   ELSE Append(bk, [coin |-> f.coin, closers |-> <<>>,
                                    builders |-> <<>>, side |-> "none"])
             k == CoinIndex(b1, f.coin)
         IN IF startsWithClose(f.dir)
            THEN [b1 EXCEPT ![k].closers = addToBucket(@, a, n), ![k].side = side]
            ELSE [b1 EXCEPT ![k].builders = addToBucket(@, a, n), ![k].side = side]

\* what a fill of non-zero notional puts into a bucket: the instrument, the
\* bucket, the wallet and the fill's side
sidesOf(a, f) ==
    IF (startsWithClose(f.dir) \/ startsWithOpen(f.dir)) /\ Abs(f.sz) * f.px > 0
    THEN {<<f.coin, IF startsWithClose(f.dir) THEN "closers" ELSE "builders", a,
            IF includesLong(f.dir) THEN "long" ELSE "short">>}
    ELSE {}

\* !data.closers[addr]: the key is missing, or its value is 0
notCloser(closers, a) == ~HasAddr(closers, a) \/ closers[AddrIndex(closers, a)].v = 0

\* Array.prototype.sort((a,b) => b[1] - a[1]): descending by v, stable
sortDescByV(s) ==
    LET rank(x) == Cardinality({j \in 1..Len(s) : s[j].v > s[x].v})
                   + Cardinality({j \in 1..(x - 1) : s[j].v = s[x].v}) + 1
    IN [r \in 1..Len(s) |-> s[CHOOSE x \in 1..Len(s) : rank(x) = r]]

\* .slice(0, n)
sliceFirst(s, n) == IF Len(s) <= n THEN s ELSE SubSeq(s, 1, n)

cAddrsOf(data, p) == SelectSeq(data.closers, LAMBDA e : e.v >= p.closeNotional)
bAddrsOf(data, p) ==
    SelectSeq(SelectSeq(data.builders, LAMBDA e : e.v >= p.buildNotional),
              LAMBDA e : notCloser(data.closers, e.addr))
divergenceHit(data, p) ==
    Len(cAddrsOf(data, p)) >= p.minClosers /\ Len(bAddrsOf(data, p)) >= p.minBuilders

NoDivergence ==
    [hit |-> FALSE, coin |-> "none", side |-> "none", closers |-> <<>>, builders |-> <<>>,
     closersTop |-> <<>>, buildersTop |-> <<>>]

\* the loop over Object.entries(book) and the return after it
scanDivergence(bk, p) ==
    IF \E k \in 1..Len(bk) : divergenceHit(bk[k], p)
    THEN LET k == CHOOSE x \in 1..Len(bk) :
                      /\ divergenceHit(bk[x], p)
                      /\ \A y \in 1..(x - 1) : ~divergenceHit(bk[y], p)
         IN [hit |-> TRUE, coin |-> bk[k].coin, side |-> bk[k].side,
             closers |-> cAddrsOf(bk[k], p), builders |-> bAddrsOf(bk[k], p),
             closersTop |-> sliceFirst(sortDescByV(cAddrsOf(bk[k], p)), 3),
             buildersTop |-> sliceFirst(sortDescByV(bAddrsOf(bk[k], p)), 3)]
    ELSE NoDivergence

DivIdle ==
    /\ divPc = "idle"
    /\ divP = [closeNotional |-> 50000, buildNotional |-> 50000,
               minClosers |-> 2, minBuilders |-> 2]
    /\ book = <<>>
    /\ divFills = 0
    /\ divOut = NoDivergence
    /\ divSides = {}

\* fillsResp is in; the aggregation loop is about to start
DivInit ==
    /\ divPc = "book"
    /\ divP \in DivParams
    /\ book = <<>>
    /\ divFills = 0
    /\ divOut = NoDivergence
    /\ divSides = {}

\* the aggregation loop takes the next fill; it belongs to the entry of some
\* wallet (addrList may name a wallet more than once)
DivFill ==
    /\ divPc = "book"
    /\ divFills < MaxDivFills
    /\ \E a \in Wallets, f \in DivFillSet :
          /\ book' = addDivergence(book, a, f)
          /\ divSides' = divSides \cup sidesOf(a, f)
    /\ divFills' = divFills + 1
    /\ UNCHANGED <<divPc, divP, divOut>>
    /\ UNCHANGED notDiv

\* fillsResp is exhausted: the scan of book runs and runDivergence returns
DivScan ==
    /\ divPc = "book"
    /\ divPc' = "done"
    /\ divOut' = scanDivergence(book, divP)
    /\ UNCHANGED <<divP, book, divFills, divSides>>
    /\ UNCHANGED notDiv

DivNext ==
    \/ DivFill
    \/ DivScan

(***************************************************************************)
(* 6. runPositionDeltaPulse                                                *)
(***************************************************************************)
\* addresses in addrList: at most MaxPulseAddrs; fills received over the
\* whole call: at most MaxPulseFills
MaxPulseAddrs == 2
MaxPulseFills == 2

\* maxHits = Infinity
Infinity == 1000000
\* trimUsd, addUsd, newUsd: the defaults; maxHits: 1 and the default
PulseParams ==
    [trimUsd : {250000}, addUsd : {250000}, newUsd : {250000}, maxHits : {1, Infinity}]
\* fills of 250000 USD
PulseFillSet ==
    [coin : Coins, dir : {"Open Long", "Open Short", "Close Long", "Close Short"},
     sz : {-5}, px : {50000}]
\* chResp.data.assetPositions: pos.position of each element (the wallet
\* holds BTC or nothing)
PulsePositions == [coin : {"BTC"}, szi : {0, 2, -2}, entryPx : {100000}]

\* fillsResp.data and chResp.data.assetPositions of one wallet
PulseFillSeqs == SeqsUpTo(PulseFillSet, MaxPulseFills)
PulsePositionSeqs == SeqsUpTo(PulsePositions, 1)

NoState == [has |-> FALSE, side |-> "none", sizeUsd |-> 0]
\* openNow[coin] after the snapshot loop: the last position of the coin
\* with szi other than 0
openNowOf(positions, coin) ==
    LET ks == {k \in 1..Len(positions) : positions[k].coin = coin /\ positions[k].szi # 0}
    IN IF ks = {} THEN NoState
       ELSE LET pos == positions[CHOOSE k \in ks : \A j \in ks : j <= k]
            IN [has |-> TRUE, side |-> IF pos.szi > 0 THEN "long" ELSE "short",
                sizeUsd |-> Abs(pos.szi) * pos.entryPx]

\* const bump = (table, coin, field, usd) => ...
bump(table, coin, field, usd) ==
    IF HasCoin(table, coin)
    THEN [table EXCEPT ![CoinIndex(table, coin)][field] = @ + usd]
    ELSE Append(table, [[coin |-> coin, longUsd |-> 0, shortUsd |-> 0] EXCEPT ![field] = usd])

\* opened / closed after the loop over fills
RECURSIVE tableOf(_, _, _)
tableOf(fills, isOpened, table) ==
    IF fills = <<>> THEN table
    ELSE LET f == Head(fills)
             fld == IF includesLong(f.dir) THEN "longUsd" ELSE "shortUsd"
             takes == IF isOpened THEN startsWithOpen(f.dir) ELSE startsWithClose(f.dir)
         IN tableOf(Tail(fills), isOpened,
                    IF takes THEN bump(table, f.coin, fld, Abs(f.sz) * f.px) ELSE table)

\* opened[coin]?.longUsd || 0
usdOf(table, coin, field) == IF HasCoin(table, coin) THEN table[CoinIndex(table, coin)][field] ELSE 0

\* new Set([...Object.keys(opened), ...Object.keys(closed)]), in iteration order
allCoinsOf(opened, closed) ==
    [k \in 1..Len(opened) |-> opened[k].coin]
        \o SelectSeq([k \in 1..Len(closed) |-> closed[k].coin],
                     LAMBDA c : ~HasCoin(opened, c))

classifyAll(entry, addr, coin, state, opened, closed, p) ==
    LET openLong == usdOf(opened, coin, "longUsd")
        closeLong == usdOf(closed, coin, "longUsd")
        ev(a) == [entry |-> entry, wallet |-> addr, action |-> a, coin |-> coin,
                  side |-> IF state.has THEN state.side
                           ELSE IF openLong > 0 THEN "long" ELSE "short",
                  sizeUsd |-> state.sizeUsd, alsoAdded |-> FALSE]
    IN (IF state.side = "long" /\ closeLong >= p.trimUsd THEN <<ev("reduced")>> ELSE <<>>)
           \o (IF state.side = "long" /\ openLong >= p.addUsd THEN <<ev("added")>> ELSE <<>>)

\* the body of the loop over allCoins for one coin: the events it pushes.
\* entry (the index of addr in addrList) and alsoAdded (whether added held
\* too) are not fields of the pushed object; they record where it came from
classify(entry, addr, coin, state, opened, closed, p) ==
    LET openLong == usdOf(opened, coin, "longUsd")
        openShort == usdOf(opened, coin, "shortUsd")
        closeLong == usdOf(closed, coin, "longUsd")
        closeShort == usdOf(closed, coin, "shortUsd")
        reduced == \/ state.side = "long" /\ closeLong >= p.trimUsd
                   \/ state.side = "short" /\ closeShort >= p.trimUsd
                   \/ ~state.has /\ (closeLong + closeShort) >= p.trimUsd
        added == state.has /\ (\/ state.side = "long" /\ openLong >= p.addUsd
                               \/ state.side = "short" /\ openShort >= p.addUsd)
        openedFresh == ~state.has /\ (openLong + openShort) >= p.newUsd
    IN IF reduced \/ added \/ openedFresh
       THEN << [entry |-> entry, wallet |-> addr,
                action |-> IF reduced THEN "reduced" ELSE IF added THEN "added" ELSE "opened",
                coin |-> coin,
                side |-> IF state.has THEN state.side
                         ELSE IF openLong > 0 THEN "long" ELSE "short",
                sizeUsd |-> state.sizeUsd, alsoAdded |-> added] >>
       ELSE <<>>

\* the events the loop over allCoins pushes for one wallet, were it to run
\* to its end
RECURSIVE walletEvents(_, _, _, _, _, _, _)
walletEvents(entry, addr, coins, positions, opened, closed, p) ==
    IF coins = <<>> THEN <<>>
    ELSE classify(entry, addr, Head(coins), openNowOf(positions, Head(coins)), opened, closed, p)
            \o walletEvents(entry, addr, Tail(coins), positions, opened, closed, p)

NoPulse == [hit |-> FALSE, results |-> <<>>]

PulseIdle ==
    /\ pdPc = "idle"
    /\ pdP = [trimUsd |-> 250000, addUsd |-> 250000, newUsd |-> 250000, maxHits |-> Infinity]
    /\ pdAddrs = <<>>
    /\ pdIdx = 0
    /\ pdFills = 0
    /\ results = <<>>
    /\ pdOut = NoPulse

PulseInit ==
    /\ pdPc = "loop"
    /\ pdP \in PulseParams
    /\ pdAddrs \in SeqsUpTo(Wallets, MaxPulseAddrs)
    /\ pdIdx = 0
    /\ pdFills = 0
    /\ results = <<>>
    /\ pdOut = NoPulse

\* one pass of the loop over addrList. Its Promise.all rejects (catch {
\* continue }), or both fetches succeed and the wallet is evaluated; the
\* function returns from inside the loop once results.length >= maxHits
PulseWallet ==
    /\ pdPc = "loop"
    /\ pdIdx < Len(pdAddrs)
    /\ \/ UNCHANGED <<pdPc, pdFills, results, pdOut>>
       \/ \E fills \in PulseFillSeqs, positions \in PulsePositionSeqs :
             /\ Len(fills) <= MaxPulseFills - pdFills
             /\ LET opened == tableOf(fills, TRUE, <<>>)
                    closed == tableOf(fills, FALSE, <<>>)
                    evs == walletEvents(pdIdx + 1, pdAddrs[pdIdx + 1],
                                        allCoinsOf(opened, closed), positions, opened, closed, pdP)
                    all == results \o evs
                    full == {n \in 1..Len(all) : n > Len(results) /\ n >= pdP.maxHits}
                IN /\ pdFills' = pdFills + Len(fills)
                   /\ IF full = {}
                      THEN /\ results' = all
                           /\ UNCHANGED <<pdPc, pdOut>>
                      ELSE /\ results' = SubSeq(all, 1, CHOOSE n \in full : \A j \in full : n <= j)
                           /\ pdPc' = "done"
                           /\ pdOut' = [hit |-> TRUE, results |-> results']
    /\ pdIdx' = pdIdx + 1
    /\ UNCHANGED <<pdP, pdAddrs>>
    /\ UNCHANGED notPd

\* return results.length ? results : { result: "no-setup" }
PulseReturn ==
    /\ pdPc = "loop"
    /\ pdIdx = Len(pdAddrs)
    /\ pdPc' = "done"
    /\ pdOut' = IF Len(results) > 0 THEN [hit |-> TRUE, results |-> results] ELSE NoPulse
    /\ UNCHANGED <<pdP, pdAddrs, pdIdx, pdFills, results>>
    /\ UNCHANGED notPd

PulseNext ==
    \/ PulseWallet
    \/ PulseReturn

(***************************************************************************)
(* 7. runLiquidationSweep                                                  *)
(***************************************************************************)
\* instruments in liqAgg: at most MaxSweepCoins
MaxSweepCoins == 3

SweepCoins == {"BTC", "ETH", "SOL", "ARB"}
\* liquidated notionals, in thousandths of a dollar: 1.003 and 1.004 both
\* print as 1.00
SweepLongs == {0, 1003, 1004}
SweepShorts == {0, 2000}
\* what aggregateLiquidations may return: one entry per instrument
SweepAggs ==
    { a \in SeqsUpTo([coin : SweepCoins, longs : SweepLongs, shorts : SweepShorts],
                     MaxSweepCoins) :
        \A x, y \in 1..Len(a) : x # y => a[x].coin # a[y].coin }

\* big$(n) for n >= 0 in thousandths: the decimal string with two fraction
\* digits, given as its number of cents
bigDollar(n) == (n + 5) \div 10
\* +s.replace(/,/g, ''): the number a string of big$ reads as, in thousandths
parseBig(cents) == cents * 10
\* Math.max
MaxOf(a, b) == IF a >= b THEN a ELSE b

orderTiesReversed(keys) ==
    LET rank(x) == Cardinality({j \in 1..Len(keys) : keys[j] > keys[x]})
                   + Cardinality({j \in (x + 1)..Len(keys) : keys[j] = keys[x]}) + 1
    IN [r \in 1..Len(keys) |-> CHOOSE x \in 1..Len(keys) : rank(x) = r]

\* Array.prototype.sort with a comparator key(b) - key(a): the indices of the
\* array in the order the sort leaves them (descending, stable)
sortOrder(keys) ==
    LET rank(x) == Cardinality({j \in 1..Len(keys) : keys[j] > keys[x]})
                   + Cardinality({j \in 1..(x - 1) : keys[j] = keys[x]}) + 1
    IN [r \in 1..Len(keys) |-> CHOOSE x \in 1..Len(keys) : rank(x) = r]

\* Object.entries(liqAgg).map(...)
sweepRows(agg) ==
    [k \in 1..Len(agg) |->
        [coin |-> agg[k].coin, longLiq |-> bigDollar(agg[k].longs),
         shortLiq |-> bigDollar(agg[k].shorts)]]
\* the comparator's Math.max(+x.longLiq.replace(...), +x.shortLiq.replace(...))
sweepKey(row) == MaxOf(parseBig(row.longLiq), parseBig(row.shortLiq))

\* the value runLiquidationSweep returns for liqAgg = agg
liquidationSweep(agg) ==
    LET rows == sweepRows(agg)
        ord == sortOrder([k \in 1..Len(rows) |-> sweepKey(rows[k])])
    IN [r \in 1..Len(rows) |-> rows[ord[r]]]

SweepIdle ==
    /\ swPc = "idle"
    /\ liqAgg = <<>>
    /\ swOut = <<>>

\* aggregateLiquidations has returned liqAgg
SweepInit ==
    /\ swPc = "aggregated"
    /\ liqAgg \in SweepAggs
    /\ swOut = <<>>

\* the return statement: map, sort, return
SweepReturn ==
    /\ swPc = "aggregated"
    /\ swPc' = "done"
    /\ swOut' = liquidationSweep(liqAgg)
    /\ UNCHANGED liqAgg
    /\ UNCHANGED notSw

SweepNext == SweepReturn

(***************************************************************************)
(* 8. runCompressionRadar                                                  *)
(***************************************************************************)
\* candles in the response: at most MaxCandles; entries of fillsResp: at
\* most MaxCrWallets
MaxCandles == 3
MaxCrWallets == 2

\* rangeBp, netBuildUsd: the defaults; minWallets, minTicks: small values the
\* bounded inputs can reach and miss
CrParams == [rangeBp : {30}, netBuildUsd : {75000}, minWallets : {1, 2}, minTicks : {2, 3}]
\* one-second candles, prices in tenths: a low of 100.0 and a high 20 or 100
\* basis points above it
Candles == [coin : Coins, high : {1002, 1010}, low : {1000}]
\* the fills of one entry of fillsResp: none, or one of 75000 USD
CrFillSeqs ==
    SeqsUpTo([coin : Coins, dir : {"Open Long", "Close Long"}, sz : {3}, px : {25000}], 1)

\* the reshape loop's body for candle c
addCandle(cs, c) ==
    LET c1 == IF HasCoin(cs, c.coin) THEN cs
              ELSE Append(cs, [coin |-> c.coin, hi |-> -1000000000, lo |-> 1000000000,
                               ticks |-> 0])
        k == CoinIndex(c1, c.coin)
    IN [c1 EXCEPT ![k].hi = MaxOf(@, c.high), ![k].lo = IF @ <= c.low THEN @ ELSE c.low,
                  ![k].ticks = @ + 1]

\* let perCoin after the inner loop over r.fills
RECURSIVE perCoinOf(_, _)
perCoinOf(fills, pcn) ==
    IF fills = <<>> THEN pcn ELSE perCoinOf(Tail(fills), addPerCoin(pcn, Head(fills)))

enoughTicksAlways(stat, p) == TRUE

\* not (stat.ticks < minTicks)
enoughTicks(stat, p) == ~(stat.ticks < p.minTicks)

\* const rangePct = 10000 * (stat.hi - stat.lo) / stat.lo
rangePctOf(stat) == (10000 * (stat.hi - stat.lo)) \div stat.lo

\* the four tests after the tick test: no continue is taken
buildQualifies(stat, fl, p) ==
    /\ ~(rangePctOf(stat) > p.rangeBp)
    /\ HasCoin(fl, stat.coin)
    /\ LET f == fl[CoinIndex(fl, stat.coin)]
       IN /\ ~(Abs(f.net) < p.netBuildUsd)
          /\ ~(Cardinality(f.wallets) < p.minWallets)

compressionHit(stat, fl, p) == enoughTicks(stat, p) /\ buildQualifies(stat, fl, p)

NoCompression ==
    [hit |-> FALSE, coin |-> "none", rangeBps |-> 0, netBuild |-> 0, side |-> "none",
     walletCount |-> 0, topBuilders |-> <<>>]

\* the evaluation loop over Object.entries(coinStats) and the return after it
evaluateCompression(cs, fl, p) ==
    IF \E k \in 1..Len(cs) : compressionHit(cs[k], fl, p)
    THEN LET k == CHOOSE x \in 1..Len(cs) :
                      /\ compressionHit(cs[x], fl, p)
                      /\ \A y \in 1..(x - 1) : ~compressionHit(cs[y], fl, p)
             f == fl[CoinIndex(fl, cs[k].coin)]
             ord == sortOrder([j \in 1..Len(f.details) |-> Abs(f.details[j].delta)])
         IN [hit |-> TRUE, coin |-> cs[k].coin, rangeBps |-> rangePctOf(cs[k]),
             netBuild |-> bigDollar(Abs(f.net) * 1000),
             side |-> IF f.net > 0 THEN "long" ELSE "short",
             walletCount |-> Cardinality(f.wallets),
             topBuilders |-> sliceFirst([j \in 1..Len(f.details) |-> f.details[ord[j]]], 5)]
    ELSE NoCompression

CompressIdle ==
    /\ crPc = "idle"
    /\ crP = [rangeBp |-> 30, netBuildUsd |-> 75000, minWallets |-> 3, minTicks |-> 50]
    /\ coinStats = <<>>
    /\ crCandles = 0
    /\ flow = <<>>
    /\ crWallets = 0
    /\ crOut = NoCompression

\* the candles query has returned
CompressInit ==
    /\ crPc = "candles"
    /\ crP \in CrParams
    /\ coinStats = <<>>
    /\ crCandles = 0
    /\ flow = <<>>
    /\ crWallets = 0
    /\ crOut = NoCompression

\* the reshape loop takes the next candle
CrCandle ==
    /\ crPc = "candles"
    /\ crCandles < MaxCandles
    /\ \E c \in Candles : coinStats' = addCandle(coinStats, c)
    /\ crCandles' = crCandles + 1
    /\ UNCHANGED <<crPc, crP, flow, crWallets, crOut>>
    /\ UNCHANGED notCr

\* the candles are exhausted and the per-wallet fetches have all settled
CrFetched ==
    /\ crPc = "candles"
    /\ crPc' = "flows"
    /\ UNCHANGED <<crP, coinStats, crCandles, flow, crWallets, crOut>>
    /\ UNCHANGED notCr

\* the aggregation loop takes the next entry r of fillsResp
CrWallet ==
    /\ crPc = "flows"
    /\ crWallets < MaxCrWallets
    /\ \E a \in Wallets, fills \in CrFillSeqs :
          flow' = mergePerCoin(flow, a, perCoinOf(fills, <<>>))
    /\ crWallets' = crWallets + 1
    /\ UNCHANGED <<crPc, crP, coinStats, crCandles, crOut>>
    /\ UNCHANGED notCr

\* fillsResp is exhausted: the evaluation loop runs and the function returns
CrEvaluate ==
    /\ crPc = "flows"
    /\ crPc' = "done"
    /\ crOut' = evaluateCompression(coinStats, flow, crP)
    /\ UNCHANGED <<crP, coinStats, crCandles, flow, crWallets>>
    /\ UNCHANGED notCr

CompressNext ==
    \/ CrCandle
    \/ CrFetched
    \/ CrWallet
    \/ CrEvaluate

(***************************************************************************)
(* 9. cached(fn, ttlMs)                                                    *)
(***************************************************************************)
\* calls of one cached function (each by its own caller): at most
\* MaxCallers; clock advances: at most MaxAdvances
MaxCallers == 3
MaxAdvances == 3

\* ttlMs = 60_000
ttlMs == 60000
Callers == 1..MaxCallers
\* the clock moves on by 1 ms or by 1 ms less than the TTL
Advances == {1, ttlMs - 1}

isFreshInclusive(t, exp) == t <= exp

\* Date.now() < expiry
isFresh(t, exp) == t < exp

slotInvalidated(v, exp) == [value |-> 0, expiry |-> 0]

\* the slot after fn rejected: "value = await fn(...a)" throws before it
\* assigns, and the statements after it do not run
slotAfterFailure(v, exp) == [value |-> v, expiry |-> exp]

NoOk == [id |-> 0, at |-> 0]
NoCall == [made |-> FALSE, at |-> 0, okBefore |-> NoOk, stored |-> 0, fetched |-> FALSE]

CacheIdle ==
    /\ now = 0
    /\ value = 0
    /\ expiry = 0
    /\ cPc = [c \in Callers |-> "idle"]
    /\ cFetch = [c \in Callers |-> 0]
    /\ cGot = [c \in Callers |-> 0]
    /\ nFetch = 0
    /\ advances = 0
    /\ lastOk = NoOk
    /\ lastCall = NoCall
    /\ lastEv = "none"

\* cached(fn) has just been evaluated: let value, expiry = 0
CacheInit ==
    /\ now = 1
    /\ value = 0
    /\ expiry = 0
    /\ cPc = [c \in Callers |-> "idle"]
    /\ cFetch = [c \in Callers |-> 0]
    /\ cGot = [c \in Callers |-> 0]
    /\ nFetch = 0
    /\ advances = 0
    /\ lastOk = NoOk
    /\ lastCall = NoCall
    /\ lastEv = "none"

\* the next caller (callers are numbered in the order of their calls) calls
\* the cached function: it returns value while the slot is fresh, else it
\* invokes fn and awaits it
CacheCall ==
    \E c \in Callers :
        /\ cPc[c] = "idle"
        /\ \A b \in 1..(c - 1) : cPc[b] # "idle"
        /\ lastCall' = [made |-> TRUE, at |-> now, okBefore |-> lastOk, stored |-> value,
                        fetched |-> ~isFresh(now, expiry)]
        /\ IF isFresh(now, expiry)
           THEN /\ cPc' = [cPc EXCEPT ![c] = "done"]
                /\ cGot' = [cGot EXCEPT ![c] = value]
                /\ UNCHANGED <<cFetch, nFetch>>
           ELSE /\ cPc' = [cPc EXCEPT ![c] = "fetching"]
                /\ nFetch' = nFetch + 1
                /\ cFetch' = [cFetch EXCEPT ![c] = nFetch + 1]
                /\ UNCHANGED cGot
        /\ lastEv' = "call"
        /\ UNCHANGED <<now, value, expiry, advances, lastOk>>
        /\ UNCHANGED notCache

\* fn resolves for a caller: value and expiry are assigned, value is returned
FetchOk ==
    \E c \in Callers :
        /\ cPc[c] = "fetching"
        /\ value' = cFetch[c]
        /\ expiry' = now + ttlMs
        /\ cPc' = [cPc EXCEPT ![c] = "done"]
        /\ cGot' = [cGot EXCEPT ![c] = cFetch[c]]
        /\ lastOk' = [id |-> cFetch[c], at |-> now]
        /\ lastEv' = "ok"
        /\ UNCHANGED <<now, cFetch, nFetch, advances, lastCall>>
        /\ UNCHANGED notCache

\* fn rejects for a caller: the call throws
FetchFail ==
    \E c \in Callers :
        /\ cPc[c] = "fetching"
        /\ value' = slotAfterFailure(value, expiry).value
        /\ expiry' = slotAfterFailure(value, expiry).expiry
        /\ cPc' = [cPc EXCEPT ![c] = "done"]
        /\ cGot' = [cGot EXCEPT ![c] = -1]
        /\ lastEv' = "fail"
        /\ UNCHANGED <<now, cFetch, nFetch, advances, lastOk, lastCall>>
        /\ UNCHANGED notCache

\* time passes
Tick ==
    /\ advances < MaxAdvances
    /\ \E d \in Advances : now' = now + d
    /\ advances' = advances + 1
    /\ lastEv' = "tick"
    /\ UNCHANGED <<value, expiry, cPc, cFetch, cGot, nFetch, lastOk, lastCall>>
    /\ UNCHANGED notCache

CacheNext ==
    \/ CacheCall
    \/ FetchOk
    \/ FetchFail
    \/ Tick

(***************************************************************************)
(* 10. walletSummary's batches at their real size (chunk, the batch loop)  *)
(***************************************************************************)

\* list lengths: 1, and MaxFullBatches or fewer full batches with nothing or
\* one wallet after them
MaxFullBatches == 1
BatchLens == {1} \cup {ChunkSize * k + d : k \in 1..MaxFullBatches, d \in {0, 1}}

\* the wallets of a list of n addresses, told apart by their position
walletList(n) == [k \in 1..n |-> k]

\* chunk(arr, size): the loop "for (i = 0; i < arr.length; i += size)
\* out.push(arr.slice(i, i + size))", from index i (0-based) on
RECURSIVE chunkFrom(_, _, _)
chunkFrom(arr, size, from) ==
    IF from < Len(arr)
    THEN <<SubSeq(arr, from + 1, Min(from + size, Len(arr)))>> \o chunkFrom(arr, size, from + size)
    ELSE <<>>
chunk(arr, size) == chunkFrom(arr, size, 0)

\* Promise.all(batch.map(...)) resolves once every task of the batch has returned
anySettled(st) == \E k \in 1..Len(st) : st[k] = "done"
batchSettled(st) == \A k \in 1..Len(st) : st[k] = "done"

\* batch.map(addr => limit(...)): the limiter starts the first GatewayMax
\* tasks and queues the rest
startTasks(batch) == [k \in 1..Len(batch) |-> IF k <= GatewayMax THEN "running" ELSE "queued"]
startedOf(batch, st) ==
    SelectSeq(batch, LAMBDA a : \E k \in 1..Len(batch) : batch[k] = a /\ st[k] = "running")

BatchIdle ==
    /\ wsPc = "idle"
    /\ wsList = <<>>
    /\ batches = <<>>
    /\ wsNo = 0
    /\ wsSt = <<>>
    /\ wsRaw = <<>>
    /\ issued = <<>>
    /\ settled = {}

BatchInit ==
    /\ wsPc = "start"
    /\ wsList = <<>>
    /\ batches = <<>>
    /\ wsNo = 0
    /\ wsSt = <<>>
    /\ wsRaw = <<>>
    /\ issued = <<>>
    /\ settled = {}

\* walletSummary from "const batches = chunk(addrList, 20)" to the await of
\* the first batch
WsStart ==
    /\ wsPc = "start"
    /\ \E n \in BatchLens :
          /\ wsList' = walletList(n)
          /\ batches' = chunk(wsList', ChunkSize)
          /\ wsNo' = 1
          /\ wsSt' = startTasks(batches'[1])
          /\ issued' = startedOf(batches'[1], wsSt')
    /\ wsPc' = "fetching"
    /\ UNCHANGED <<wsRaw, settled>>
    /\ UNCHANGED notWs

\* the hlPost of one running task settles (its try/catch turns a failure into
\* an entry), and the limiter starts the first waiting task of the batch
WsFetchSettles ==
    /\ wsPc = "fetching"
    /\ \E k \in 1..Len(wsSt) :
          /\ wsSt[k] = "running"
          /\ settled' = settled \cup {batches[wsNo][k]}
          /\ LET waiting == {j \in 1..Len(wsSt) : wsSt[j] = "queued"}
             IN IF waiting = {}
                THEN /\ wsSt' = [wsSt EXCEPT ![k] = "done"]
                     /\ UNCHANGED issued
                ELSE LET j == CHOOSE j \in waiting : \A h \in waiting : j <= h
                     IN /\ wsSt' = [wsSt EXCEPT ![k] = "done", ![j] = "running"]
                        /\ issued' = Append(issued, batches[wsNo][j])
    /\ UNCHANGED <<wsPc, wsList, batches, wsNo, wsRaw>>
    /\ UNCHANGED notWs

\* the batch's Promise.all resolves: fillsRaw.push(...fillsBatch), then the
\* next pass of "for (const batch of batches)" or the end of the loop
WsBatchDone ==
    /\ wsPc = "fetching"
    /\ batchSettled(wsSt)
    /\ wsRaw' = wsRaw \o batches[wsNo]
    /\ IF wsNo < Len(batches)
       THEN /\ wsNo' = wsNo + 1
            /\ wsSt' = startTasks(batches[wsNo + 1])
            /\ issued' = issued \o startedOf(batches[wsNo + 1], wsSt')
            /\ UNCHANGED wsPc
       ELSE /\ wsPc' = "done"
            /\ UNCHANGED <<wsNo, wsSt, issued>>
    /\ UNCHANGED <<wsList, batches, settled>>
    /\ UNCHANGED notWs

BatchNext ==
    \/ WsStart
    \/ WsFetchSettles
    \/ WsBatchDone

(***************************************************************************)
(* 11. the liquidation window of runLiquidationSweep and                   *)
(*     runLiquidationSniper                                                *)
(***************************************************************************)

\* Date.now() at the call: 1,000,000 ms plus a number of quarter seconds
MaxClockSteps == 7
Clocks == {1000000 + 250 * k : k \in 0..MaxClockSteps}

\* the API's hard limit on a liquidation window
LiqSpanMs == 119000
SweepWindowMs == 60000
SniperLookbackLiqMs == 90000

\* the window parameter: left out, or a number of milliseconds
WindowLengths == {0, 1, 999, 60000, 90000, 118001, LiqSpanMs - 1, LiqSpanMs, LiqSpanMs + 1,
                  120000, 600000}
WindowParams == {[given |-> FALSE, ms |-> 0]} \cup {[given |-> TRUE, ms |-> w] : w \in WindowLengths}
withDefault(p, d) == IF p.given THEN p.ms ELSE d

\* Math.min(windowMs, 119_000)
noClamp(w) == w
clampWindow(w) == Min(w, LiqSpanMs)

\* fetchLiquidations: Math.floor(ms / 1000)
toSeconds(ms) == ms \div 1000

NoQuery == [type |-> "none", startTime |-> 0, endTime |-> 0]
liquidationsQuery(startMs, endMs) ==
    [type |-> "liquidations", startTime |-> toSeconds(startMs), endTime |-> toSeconds(endMs)]

WindowIdle ==
    /\ lwPc = "idle"
    /\ lwWho = "none"
    /\ lwParam = [given |-> FALSE, ms |-> 0]
    /\ lwEnd = 0
    /\ lwStart = 0
    /\ lwQuery = NoQuery

WindowInit ==
    /\ lwPc = "start"
    /\ lwWho = "none"
    /\ lwParam = [given |-> FALSE, ms |-> 0]
    /\ lwEnd = 0
    /\ lwStart = 0
    /\ lwQuery = NoQuery

\* a detector from its first line to the hlPost inside fetchLiquidations
issueQuery(who, p, default, t) ==
    /\ lwWho' = who
    /\ lwParam' = p
    /\ lwEnd' = t
    /\ lwStart' = t - clampWindow(withDefault(p, default))
    /\ lwQuery' = liquidationsQuery(lwStart', t)
    /\ lwPc' = "queried"

\* runLiquidationSweep({ windowMs = 60_000 })
SweepQuery ==
    /\ lwPc = "start"
    /\ \E p \in WindowParams, t \in Clocks : issueQuery("liquidationSweep", p, SweepWindowMs, t)
    /\ UNCHANGED notLw

\* runLiquidationSniper: lookbackLiqMs = 90_000
SniperQuery ==
    /\ lwPc = "start"
    /\ \E p \in WindowParams, t \in Clocks : issueQuery("liquidationSniper", p, SniperLookbackLiqMs, t)
    /\ UNCHANGED notLw

WindowNext ==
    \/ SweepQuery
    \/ SniperQuery

(***************************************************************************)
(* 12. scatter and join: the per-wallet fetches of runTrendBias and        *)
(*     runDivergence, and the folds over fillsResp                         *)
(***************************************************************************)

MaxSjWallets == 3

\* what hlPost gives for one wallet: a failure, a body without data, or fills
SjResponses ==
    { [ok |-> FALSE, hasData |-> FALSE, fills |-> <<>>],
      [ok |-> TRUE, hasData |-> FALSE, fills |-> <<>>],
      [ok |-> TRUE, hasData |-> TRUE,
       fills |-> <<[coin |-> "BTC", dir |-> "Open Long", sz |-> 3, px |-> 5]>>],
      [ok |-> TRUE, hasData |-> TRUE,
       fills |-> <<[coin |-> "ETH", dir |-> "Close Short", sz |-> -2, px |-> 5],
                   [coin |-> "BTC", dir |-> "Close Long", sz |-> 3, px |-> 5]>>] }

\* the task's return value: { addr, fills: data || [] }, or { addr, fills: [] }
\* from its catch
fillsEntry(addr, resp) ==
    [addr |-> addr, fills |-> IF resp.ok /\ resp.hasData THEN resp.fills ELSE <<>>]

\* runTrendBias: for (const r of fillsResp) { ... }
RECURSIVE trendFold(_, _)
trendFold(resp, agg) ==
    IF resp = <<>> THEN agg
    ELSE trendFold(Tail(resp),
                   mergePerCoin(agg, Head(resp).addr, perCoinOf(Head(resp).fills, <<>>)))

\* runDivergence: for (const r of fillsResp) for (const f of r.fills) { ... }
RECURSIVE bookOfFills(_, _, _)
bookOfFills(bk, a, fills) ==
    IF fills = <<>> THEN bk ELSE bookOfFills(addDivergence(bk, a, Head(fills)), a, Tail(fills))
RECURSIVE bookFold(_, _)
bookFold(resp, bk) ==
    IF resp = <<>> THEN bk
    ELSE bookFold(Tail(resp), bookOfFills(bk, Head(resp).addr, Head(resp).fills))

JoinIdle ==
    /\ sjPc = "idle"
    /\ sjAddrs = <<>>
    /\ sjUp = <<>>
    /\ sjSt = <<>>
    /\ sjOrder = <<>>
    /\ sjResp = <<>>
    /\ sjAgg = <<>>
    /\ sjBook = <<>>

JoinInit ==
    /\ sjPc = "start"
    /\ sjAddrs = <<>>
    /\ sjUp = <<>>
    /\ sjSt = <<>>
    /\ sjOrder = <<>>
    /\ sjResp = <<>>
    /\ sjAgg = <<>>
    /\ sjBook = <<>>

\* the detector up to "await Promise.all(addrList.map(addr => limit(...)))"
SjStart ==
    /\ sjPc = "start"
    /\ \E n \in 1..MaxSjWallets :
          /\ \E l \in [1..n -> Wallets] : sjAddrs' = l
          /\ \E u \in [1..n -> SjResponses] : sjUp' = u
          /\ sjResp' = [k \in 1..n |-> NoEntry]
    /\ sjSt' = startTasks(sjAddrs')
    /\ sjPc' = "fetching"
    /\ UNCHANGED <<sjOrder, sjAgg, sjBook>>
    /\ UNCHANGED notSj

\* the hlPost of one running task settles, the task returns its entry, and
\* the limiter starts the first waiting task
SjFetchSettles ==
    /\ sjPc = "fetching"
    /\ \E k \in 1..Len(sjSt) :
          /\ sjSt[k] = "running"
          /\ sjResp' = placeResult(sjResp, k, fillsEntry(sjAddrs[k], sjUp[k]))
          /\ sjOrder' = Append(sjOrder, k)
          /\ LET waiting == {j \in 1..Len(sjSt) : sjSt[j] = "queued"}
             IN IF waiting = {}
                THEN sjSt' = [sjSt EXCEPT ![k] = "done"]
                ELSE sjSt' = [sjSt EXCEPT ![k] = "done",
                                ![CHOOSE j \in waiting : \A h \in waiting : j <= h] = "running"]
    /\ UNCHANGED <<sjPc, sjAddrs, sjUp, sjAgg, sjBook>>
    /\ UNCHANGED notSj

\* Promise.all resolves with fillsResp and the detector folds it
SjJoin ==
    /\ sjPc = "fetching"
    /\ batchSettled(sjSt)
    /\ sjAgg' = trendFold(sjResp, <<>>)
    /\ sjBook' = bookFold(sjResp, <<>>)
    /\ sjPc' = "done"
    /\ UNCHANGED <<sjAddrs, sjUp, sjSt, sjOrder, sjResp>>
    /\ UNCHANGED notSj

JoinNext ==
    \/ SjStart
    \/ SjFetchSettles
    \/ SjJoin

(***************************************************************************)
(* 13. runLiquidationSniper                                                *)
(***************************************************************************)

\* entries of fillsResp, and fills in all of them together
MaxSnWallets == 2
MaxSnFills == 3

\* the wallets of addrList, in list order
SnAddrs == <<"0xA", "0xB", "0xC", "0xD">>

SnParams == [liqThreshold : {1000000}, buildThreshold : {100000}, minWallets : {1, 2}]

\* liqAgg as aggregateLiquidations returns it, entries in insertion order
SnLiqAggs ==
    { <<[coin |-> "BTC", longs |-> l, shorts |-> s]>> :
          l \in {0, 999999, 1000000}, s \in {0, 1000000} }
    \cup
    { <<[coin |-> "ETH", longs |-> 0, shorts |-> s], [coin |-> "BTC", longs |-> 1000000, shorts |-> 0]>> :
          s \in {999999, 1000000} }

\* fills of $60,000 and $100,000
SnFillSet ==
    { [coin |-> "BTC", dir |-> "Open Long", sz |-> 3, px |-> 20000],
      [coin |-> "BTC", dir |-> "Open Long", sz |-> 5, px |-> 20000],
      [coin |-> "BTC", dir |-> "Open Short", sz |-> -5, px |-> 20000],
      [coin |-> "BTC", dir |-> "Close Long", sz |-> -5, px |-> 20000],
      [coin |-> "BTC", dir |-> "Close Short", sz |-> 5, px |-> 20000],
      [coin |-> "ETH", dir |-> "Open Short", sz |-> -5, px |-> 20000] }

\* const cascadeSide
cascadeSideOf(liq, p) ==
    IF liq.longs >= p.liqThreshold THEN "longs"
    ELSE IF liq.shorts >= p.liqThreshold THEN "shorts" ELSE "none"

\* const wantBuildSide
wantBuildSideOf(cascadeSide) == IF cascadeSide = "longs" THEN "long" ELSE "short"

\* if (isOpen && side === wantBuildSide)
countsAnyOnSide(f, want) == (IF includesLong(f.dir) THEN "long" ELSE "short") = want
countsTowardBuild(f, want) ==
    startsWithOpen(f.dir) /\ (IF includesLong(f.dir) THEN "long" ELSE "short") = want

\* let net, after the loop over r.fills.filter(f => f.coin === coin)
RECURSIVE buildNet(_, _, _)
buildNet(fills, coin, want) ==
    IF fills = <<>> THEN 0
    ELSE (IF Head(fills).coin = coin /\ countsTowardBuild(Head(fills), want)
          THEN notional(Head(fills)) ELSE 0) + buildNet(Tail(fills), coin, want)

\* walletAdds[r.addr] = net, over the entries of fillsResp
RECURSIVE walletAddsOf(_, _, _, _, _)
walletAddsOf(resp, coin, want, p, adds) ==
    IF resp = <<>> THEN adds
    ELSE LET net == buildNet(Head(resp).fills, coin, want)
             a == Head(resp).addr
             adds1 == IF net >= p.buildThreshold
                      THEN (IF HasAddr(adds, a)
                            THEN [adds EXCEPT ![AddrIndex(adds, a)].v = net]
                            ELSE Append(adds, [addr |-> a, v |-> net]))
                      ELSE adds
         IN walletAddsOf(Tail(resp), coin, want, p, adds1)

sniperHit(liq, resp, p) ==
    /\ cascadeSideOf(liq, p) # "none"
    /\ Len(walletAddsOf(resp, liq.coin, wantBuildSideOf(cascadeSideOf(liq, p)), p, <<>>)) >= p.minWallets

NoSetup == [hit |-> FALSE, coin |-> "none", cascadeSide |-> "none", wantBuildSide |-> "none",
            walletCount |-> 0, walletAdds |-> <<>>]

\* the loop over Object.entries(liqAgg): the first instrument with the pattern
sniperScan(agg, resp, p) ==
    IF \E k \in 1..Len(agg) : sniperHit(agg[k], resp, p)
    THEN LET k == CHOOSE x \in 1..Len(agg) :
                      /\ sniperHit(agg[x], resp, p)
                      /\ \A y \in 1..(x - 1) : ~sniperHit(agg[y], resp, p)
             cs == cascadeSideOf(agg[k], p)
             adds == walletAddsOf(resp, agg[k].coin, wantBuildSideOf(cs), p, <<>>)
         IN [hit |-> TRUE, coin |-> agg[k].coin,
             cascadeSide |-> IF cs = "longs" THEN "longsLiquidated" ELSE "shortsLiquidated",
             wantBuildSide |-> wantBuildSideOf(cs),
             walletCount |-> Len(adds), walletAdds |-> adds]
    ELSE NoSetup

SniperIdle ==
    /\ snPc = "idle"
    /\ snP = [liqThreshold |-> 0, buildThreshold |-> 0, minWallets |-> 0]
    /\ snLiq = <<>>
    /\ snResp = <<>>
    /\ snFills = 0
    /\ snOut = NoSetup

SniperInit ==
    /\ snPc = "start"
    /\ snP = [liqThreshold |-> 0, buildThreshold |-> 0, minWallets |-> 0]
    /\ snLiq = <<>>
    /\ snResp = <<>>
    /\ snFills = 0
    /\ snOut = NoSetup

\* the call with its parameters, and aggregateLiquidations' answer
SnStart ==
    /\ snPc = "start"
    /\ \E p \in SnParams : snP' = p
    /\ \E agg \in SnLiqAggs : snLiq' = agg
    /\ snPc' = "fills"
    /\ UNCHANGED <<snResp, snFills, snOut>>
    /\ UNCHANGED notSn

\* the task of the next wallet of addrList returns { addr, fills: [] } so far
SnWallet ==
    /\ snPc = "fills"
    /\ Len(snResp) < MaxSnWallets
    /\ snResp' = Append(snResp, [addr |-> SnAddrs[Len(snResp) + 1], fills |-> <<>>])
    /\ UNCHANGED <<snPc, snP, snLiq, snFills, snOut>>
    /\ UNCHANGED notSn

\* one more fill in the data of the latest wallet
SnFill ==
    /\ snPc = "fills"
    /\ snResp # <<>>
    /\ snFills < MaxSnFills
    /\ \E f \in SnFillSet : snResp' = [snResp EXCEPT ![Len(snResp)].fills = Append(@, f)]
    /\ snFills' = snFills + 1
    /\ UNCHANGED <<snPc, snP, snLiq, snOut>>
    /\ UNCHANGED notSn

\* fillsResp is complete: the evaluation loop and the return
SnEvaluate ==
    /\ snPc = "fills"
    /\ snOut' = sniperScan(snLiq, snResp, snP)
    /\ snPc' = "done"
    /\ UNCHANGED <<snP, snLiq, snResp, snFills>>
    /\ UNCHANGED notSn

SniperNext ==
    \/ SnStart
    \/ SnWallet
    \/ SnFill
    \/ SnEvaluate

(***************************************************************************)
(* 14. runOpenInterestPulse                                                *)
(***************************************************************************)

\* entries of fillsResp, and fills in all of them together
MaxOiWallets == 2
MaxOiFills == 3

OiParams == [deltaUsd : {250000}, minWallets : {1, 2}, side : {"long", "short", "both"}]

\* rows of openInterestHistory: { coin, startOi.usd, endOi.usd }
OiRowSets ==
    { <<>> }
    \cup { <<[coin |-> "BTC", startOi |-> s, endOi |-> e]>> :
              s \in {0, 300000}, e \in {0, 249999, 250000} }
    \cup { <<[coin |-> "ETH", startOi |-> 0, endOi |-> 250000],
             [coin |-> "BTC", startOi |-> s, endOi |-> 0]>> : s \in {249999, 300000} }
\* data of the response: not an array, or the rows
OiHistories == {[isArray |-> FALSE, rows |-> <<>>]} \cup {[isArray |-> TRUE, rows |-> r] : r \in OiRowSets}

\* fills of $100,000
OiFillSet ==
    { [coin |-> "BTC", dir |-> "Open Long", sz |-> 5, px |-> 20000],
      [coin |-> "BTC", dir |-> "Close Long", sz |-> -5, px |-> 20000],
      [coin |-> "BTC", dir |-> "Open Short", sz |-> -5, px |-> 20000],
      [coin |-> "ETH", dir |-> "Open Long", sz |-> 5, px |-> 20000] }

\* the loop over oiHist: oiChange[row.coin] = { deltaUsd: d, ... } when |d| >= deltaUsd
RECURSIVE oiChangeOf(_, _, _)
oiChangeOf(rows, p, chg) ==
    IF rows = <<>> THEN chg
    ELSE LET row == Head(rows)
             d == row.endOi - row.startOi
             e == [coin |-> row.coin, deltaUsd |-> d]
             chg1 == IF Abs(d) >= p.deltaUsd
                     THEN (IF HasCoin(chg, row.coin)
                           THEN [chg EXCEPT ![CoinIndex(chg, row.coin)] = e]
                           ELSE Append(chg, e))
                     ELSE chg
         IN oiChangeOf(Tail(rows), p, chg1)

\* const bias
biasOf(net) == IF net > 0 THEN "long" ELSE IF net < 0 THEN "short" ELSE "flat"

\* the test that makes the loop continue: the bias is a side not asked for
sideRejected(bias, side) ==
    LET wantedLong == side = "long" \/ side = "both"
        wantedShort == side = "short" \/ side = "both"
    IN (bias = "long" /\ ~wantedLong) \/ (bias = "short" /\ ~wantedShort)

oiHit(change, flw, p) ==
    /\ HasCoin(flw, change.coin)
    /\ LET f == flw[CoinIndex(flw, change.coin)]
       IN /\ ~sideRejected(biasOf(f.net), p.side)
          /\ ~(Cardinality(f.wallets) < p.minWallets)

OiResult(r) == [result |-> r, coin |-> "none", deltaOiUsd |-> 0, side |-> "none", walletCount |-> 0]

\* the loop over Object.entries(oiChange) and the return after it
oiScan(chg, flw, p) ==
    IF \E k \in 1..Len(chg) : oiHit(chg[k], flw, p)
    THEN LET k == CHOOSE x \in 1..Len(chg) :
                      /\ oiHit(chg[x], flw, p)
                      /\ \A y \in 1..(x - 1) : ~oiHit(chg[y], flw, p)
             f == flw[CoinIndex(flw, chg[k].coin)]
         IN [result |-> "hit", coin |-> chg[k].coin, deltaOiUsd |-> Abs(chg[k].deltaUsd),
             side |-> biasOf(f.net), walletCount |-> Cardinality(f.wallets)]
    ELSE OiResult("no-setup")

OiIdle ==
    /\ oiPc = "idle"
    /\ oiP = [deltaUsd |-> 0, minWallets |-> 0, side |-> "none"]
    /\ oiHist = [isArray |-> FALSE, rows |-> <<>>]
    /\ oiResp = <<>>
    /\ oiFills = 0
    /\ oiFlow = <<>>
    /\ oiOut = OiResult("none")

OiInit ==
    /\ oiPc = "start"
    /\ oiP = [deltaUsd |-> 0, minWallets |-> 0, side |-> "none"]
    /\ oiHist = [isArray |-> FALSE, rows |-> <<>>]
    /\ oiResp = <<>>
    /\ oiFills = 0
    /\ oiFlow = <<>>
    /\ oiOut = OiResult("none")

\* the call, the answer to openInterestHistory, and the two early returns
OiStart ==
    /\ oiPc = "start"
    /\ \E p \in OiParams, h \in OiHistories :
          /\ oiP' = p
          /\ oiHist' = h
          /\ IF ~h.isArray \/ Len(h.rows) = 0
             THEN oiPc' = "done" /\ oiOut' = OiResult("no-data")
             ELSE IF Len(oiChangeOf(h.rows, p, <<>>)) = 0
                  THEN oiPc' = "done" /\ oiOut' = OiResult("no-oi-move")
                  ELSE oiPc' = "fills" /\ UNCHANGED oiOut
    /\ UNCHANGED <<oiResp, oiFills, oiFlow>>
    /\ UNCHANGED notOi

\* the task of the next wallet of addrList returns { addr, fills: [] } so far
OiWallet ==
    /\ oiPc = "fills"
    /\ Len(oiResp) < MaxOiWallets
    /\ oiResp' = Append(oiResp, [addr |-> SnAddrs[Len(oiResp) + 1], fills |-> <<>>])
    /\ UNCHANGED <<oiPc, oiP, oiHist, oiFills, oiFlow, oiOut>>
    /\ UNCHANGED notOi

\* one more fill in the data of the latest wallet
OiFill ==
    /\ oiPc = "fills"
    /\ oiResp # <<>>
    /\ oiFills < MaxOiFills
    /\ \E f \in OiFillSet : oiResp' = [oiResp EXCEPT ![Len(oiResp)].fills = Append(@, f)]
    /\ oiFills' = oiFills + 1
    /\ UNCHANGED <<oiPc, oiP, oiHist, oiFlow, oiOut>>
    /\ UNCHANGED notOi

\* fillsResp is complete: the flow fold, the cross-check loop and the return
OiEvaluate ==
    /\ oiPc = "fills"
    /\ oiFlow' = trendFold(oiResp, <<>>)
    /\ oiOut' = oiScan(oiChangeOf(oiHist.rows, oiP, <<>>), oiFlow', oiP)
    /\ oiPc' = "done"
    /\ UNCHANGED <<oiP, oiHist, oiResp, oiFills>>
    /\ UNCHANGED notOi

OiNext ==
    \/ OiStart
    \/ OiWallet
    \/ OiFill
    \/ OiEvaluate

(***************************************************************************)
(* 15. analyseFills over any fill list                                     *)
(***************************************************************************)

MaxAfFills == 3

\* fills of $49,990, $50,000, $100,000 and $120,000
AfFillSet ==
    [coin : {"BTC"}, dir : {"Open Long", "Open Short", "Close Long", "Close Short"},
     sz : {4999, -10000}, px : {10}]
    \cup { [coin |-> "BTC", dir |-> "Open Short", sz |-> 5000, px |-> 10],
           [coin |-> "BTC", dir |-> "Buy", sz |-> 10000, px |-> 10],
           [coin |-> "btc", dir |-> "Open Short", sz |-> -10000, px |-> 10],
           [coin |-> "ETH", dir |-> "Open Short", sz |-> -10000, px |-> 10],
           CloseLongBig }
AfFillLists == SeqsUpTo(AfFillSet, MaxAfFills)

InsightIdle ==
    /\ afPc = "idle"
    /\ afFills = <<>>
    /\ afOut = NoInsights

InsightInit ==
    /\ afPc = "start"
    /\ afFills = <<>>
    /\ afOut = NoInsights

\* analyseFills(r.fills) for the fills of one wallet
AfAnalyse ==
    /\ afPc = "start"
    /\ \E fills \in AfFillLists :
          /\ afFills' = fills
          /\ afOut' = analyseFills(fills)
    /\ afPc' = "done"
    /\ UNCHANGED notAf

InsightNext == AfAnalyse

(***************************************************************************)
(* Specifications                                                          *)
(***************************************************************************)
InitLimiter ==
    /\ LimInit /\ PostIdle /\ FoldIdle /\ CallIdle /\ DivIdle /\ PulseIdle /\ SweepIdle
    /\ CompressIdle /\ CacheIdle /\ BatchIdle /\ WindowIdle /\ JoinIdle /\ SniperIdle
    /\ OiIdle /\ InsightIdle
SpecLimiter == InitLimiter /\ [][LimNext]_vars

InitPost ==
    /\ PostInit /\ LimIdle /\ FoldIdle /\ CallIdle /\ DivIdle /\ PulseIdle /\ SweepIdle
    /\ CompressIdle /\ CacheIdle /\ BatchIdle /\ WindowIdle /\ JoinIdle /\ SniperIdle
    /\ OiIdle /\ InsightIdle
SpecPost == InitPost /\ [][PostNext]_vars

InitFold ==
    /\ FoldInit /\ LimIdle /\ PostIdle /\ CallIdle /\ DivIdle /\ PulseIdle /\ SweepIdle
    /\ CompressIdle /\ CacheIdle /\ BatchIdle /\ WindowIdle /\ JoinIdle /\ SniperIdle
    /\ OiIdle /\ InsightIdle
SpecFold == InitFold /\ [][FoldNext]_vars

InitCall ==
    /\ CallInit /\ LimIdle /\ PostIdle /\ FoldIdle /\ DivIdle /\ PulseIdle /\ SweepIdle
    /\ CompressIdle /\ CacheIdle /\ BatchIdle /\ WindowIdle /\ JoinIdle /\ SniperIdle
    /\ OiIdle /\ InsightIdle
SpecCall == InitCall /\ [][CallNext]_vars

InitDivergence ==
    /\ DivInit /\ LimIdle /\ PostIdle /\ FoldIdle /\ CallIdle /\ PulseIdle /\ SweepIdle
    /\ CompressIdle /\ CacheIdle /\ BatchIdle /\ WindowIdle /\ JoinIdle /\ SniperIdle
    /\ OiIdle /\ InsightIdle
SpecDivergence == InitDivergence /\ [][DivNext]_vars

InitPulse ==
    /\ PulseInit /\ LimIdle /\ PostIdle /\ FoldIdle /\ CallIdle /\ DivIdle /\ SweepIdle
    /\ CompressIdle /\ CacheIdle /\ BatchIdle /\ WindowIdle /\ JoinIdle /\ SniperIdle
    /\ OiIdle /\ InsightIdle
SpecPulse == InitPulse /\ [][PulseNext]_vars

InitSweep ==
    /\ SweepInit /\ LimIdle /\ PostIdle /\ FoldIdle /\ CallIdle /\ DivIdle /\ PulseIdle
    /\ CompressIdle /\ CacheIdle /\ BatchIdle /\ WindowIdle /\ JoinIdle /\ SniperIdle
    /\ OiIdle /\ InsightIdle
SpecSweep == InitSweep /\ [][SweepNext]_vars

InitCompress ==
    /\ CompressInit /\ LimIdle /\ PostIdle /\ FoldIdle /\ CallIdle /\ DivIdle /\ PulseIdle
    /\ SweepIdle /\ CacheIdle /\ BatchIdle /\ WindowIdle /\ JoinIdle /\ SniperIdle /\ OiIdle
    /\ InsightIdle
SpecCompress == InitCompress /\ [][CompressNext]_vars

InitCache ==
    /\ CacheInit /\ LimIdle /\ PostIdle /\ FoldIdle /\ CallIdle /\ DivIdle /\ PulseIdle
    /\ SweepIdle /\ CompressIdle /\ BatchIdle /\ WindowIdle /\ JoinIdle /\ SniperIdle
    /\ OiIdle /\ InsightIdle
SpecCache == InitCache /\ [][CacheNext]_vars

InitBatch ==
    /\ BatchInit /\ LimIdle /\ PostIdle /\ FoldIdle /\ CallIdle /\ DivIdle /\ PulseIdle
    /\ SweepIdle /\ CompressIdle /\ CacheIdle /\ WindowIdle /\ JoinIdle /\ SniperIdle
    /\ OiIdle /\ InsightIdle
SpecBatch == InitBatch /\ [][BatchNext]_vars

InitWindow ==
    /\ WindowInit /\ LimIdle /\ PostIdle /\ FoldIdle /\ CallIdle /\ DivIdle /\ PulseIdle
    /\ SweepIdle /\ CompressIdle /\ CacheIdle /\ BatchIdle /\ JoinIdle /\ SniperIdle
    /\ OiIdle /\ InsightIdle
SpecWindow == InitWindow /\ [][WindowNext]_vars

InitJoin ==
    /\ JoinInit /\ LimIdle /\ PostIdle /\ FoldIdle /\ CallIdle /\ DivIdle /\ PulseIdle
    /\ SweepIdle /\ CompressIdle /\ CacheIdle /\ BatchIdle /\ WindowIdle /\ SniperIdle
    /\ OiIdle /\ InsightIdle
SpecJoin == InitJoin /\ [][JoinNext]_vars

InitSniper ==
    /\ SniperInit /\ LimIdle /\ PostIdle /\ FoldIdle /\ CallIdle /\ DivIdle /\ PulseIdle
    /\ SweepIdle /\ CompressIdle /\ CacheIdle /\ BatchIdle /\ WindowIdle /\ JoinIdle
    /\ OiIdle /\ InsightIdle
SpecSniper == InitSniper /\ [][SniperNext]_vars

InitOi ==
    /\ OiInit /\ LimIdle /\ PostIdle /\ FoldIdle /\ CallIdle /\ DivIdle /\ PulseIdle
    /\ SweepIdle /\ CompressIdle /\ CacheIdle /\ BatchIdle /\ WindowIdle /\ JoinIdle
    /\ SniperIdle /\ InsightIdle
SpecOi == InitOi /\ [][OiNext]_vars

InitInsight ==
    /\ InsightInit /\ LimIdle /\ PostIdle /\ FoldIdle /\ CallIdle /\ DivIdle /\ PulseIdle
    /\ SweepIdle /\ CompressIdle /\ CacheIdle /\ BatchIdle /\ WindowIdle /\ JoinIdle
    /\ SniperIdle /\ OiIdle
SpecInsight == InitInsight /\ [][InsightNext]_vars

\* ---- further specifications
\* the limiter with every task it runs settling, and the promise reactions
\* (.then, .catch, .finally) run by the microtask queue
\* the tasks a limiter of at most MaxLiveLimit is handed
LiveTasks == 1..(MaxLiveLimit + ExtraTasks)
InitLimiterLive == InitLimiter /\ max <= MaxLiveLimit
SpecLimiterLive ==
    /\ InitLimiterLive
    /\ [][LimNext]_vars
    /\ \A t \in LiveTasks : WF_vars(Settle(t)) /\ WF_vars(Deliver(t)) /\ WF_vars(Release(t))

(***************************************************************************)
(* Claims                                                                  *)
(***************************************************************************)
RECURSIVE SumFlows(_)
SumFlows(w) == IF w = <<>> THEN 0 ELSE Head(w).flow + SumFlows(Tail(w))
RECURSIVE SumDeltas(_)
SumDeltas(w) == IF w = <<>> THEN 0 ELSE Head(w).delta + SumDeltas(Tail(w))

\* no address occurs twice among the entries of fillsResp
DistinctWallets == \A j, k \in 1..Len(foldAddrs) : foldAddrs[j] = foldAddrs[k] => j = k

C2_SignConvention ==
    last.kind = "fill" =>
        LET f == last.fill
            n == (IF f.sz < 0 THEN -f.sz ELSE f.sz) * f.px
        IN /\ f.dir \in {"Open Long", "Close Short"} =>
                 last.fsNet = n /\ last.fsFlow = n /\ last.tbDelta = n
           /\ f.dir \in {"Open Short", "Close Long"} =>
                 last.fsNet = -n /\ last.fsFlow = -n /\ last.tbDelta = -n

\* C2 witness: a Close Short fill of non-zero notional has just been folded
C2_Witness ==
    /\ last.kind = "fill"
    /\ last.fill.dir = "Close Short"
    /\ last.fill.sz = -2
    /\ last.fsNet = 10

\* tasks whose fn() was called and whose promise has not settled yet
InFlight == {t \in Tasks : status[t] = "running"}

\* C3: for every limit N and every interleaving of submissions and
\* completions, the number of tasks started and not yet settled is at most N
C3_InFlightBounded == Cardinality(InFlight) <= max

\* C3 witness: the pool is full (N tasks in flight) while another task waits
C3_Witness == Cardinality(InFlight) = max /\ Len(q) > 0 /\ max = GatewayMax

\* C4: tasks start in submission order: no task has started while a task
\* submitted before it is still waiting in the queue
C4_StartInSubmissionOrder ==
    \A t, u \in Tasks :
        (status[t] = "queued" /\ status[u] \notin {"new", "queued"}) => u < t

\* C4 witness: a later-submitted task completed before an earlier one, and a
\* queued task was started by the slot it freed
C4_Witness ==
    \E t, u, w \in Tasks :
        /\ t < u /\ u < w
        /\ status[t] = "running" /\ status[u] = "released"
        /\ status[w] = "running" /\ w > max

\* the errors of the failed attempts so far, in order
Failed == SelectSeq(resps, LAMBDA r : ~r.ok)
Transient(r) == ~r.ok /\ shouldBackoff(r.err)
AllTransient == \A k \in 1..Len(resps) : resps[k].ok \/ Transient(resps[k])

\* C5: a request whose failures are all transient (429 or timeout) is
\* attempted at most 3 times; after the k-th failed attempt (k = 1, 2) the
\* call sleeps 500 ms x k before the next attempt; the first success is
\* returned at once (no attempt follows it); when all 3 attempts fail the
\* call throws the error of the last attempt
C5_RetryBackoff ==
    AllTransient =>
        /\ Len(resps) <= 3
        /\ \A k \in 1..Len(slept) : slept[k] = 500 * k
        /\ Len(slept) = (IF pc = "done" /\ ~resps[Len(resps)].ok /\ Len(resps) = 3
                          THEN 2 ELSE Len(Failed))
        /\ pc = "sleep" => slept[Len(slept)] > 0
        /\ \A k \in 1..Len(resps) :
              resps[k].ok =>
                  /\ k = Len(resps)
                  /\ pc = "done"
                  /\ hlResult = [kind |-> "return", data |-> resps[k].data, err |-> NoError]
        /\ (Len(Failed) = 3) =>
              /\ pc = "done"
              /\ hlResult = [kind |-> "throw", data |-> NoEvents, err |-> resps[3].err]
        /\ (hlResult.kind = "throw") => Len(Failed) = 3

\* C5 witness: two transient failures, both backed off, then a third
\* transient failure whose error is thrown
C5_Witness ==
    /\ AllTransient
    /\ Len(Failed) = 3
    /\ slept = <<500, 1000>>
    /\ resps[1].err # resps[3].err
    /\ hlResult.kind = "throw"

\* C6: when the first attempt fails with a non-transient 4xx error (not 429)
\* hlPost fails at once: one attempt is made and its error is thrown
C6_NonTransientFailsAtOnce ==
    (Len(resps) >= 1 /\ ~resps[1].ok /\ resps[1].err.status \in 400..499
        /\ resps[1].err.status # 429)
    => /\ Len(resps) = 1
       /\ pc = "done"
       /\ hlResult = [kind |-> "throw", data |-> NoEvents, err |-> resps[1].err]

\* C7: when the liquidation query ends in HTTP 422, fetchLiquidations yields
\* zero events, aggregateLiquidations returns the empty aggregate and no
\* error reaches the caller
C7_UnprocessableIsEmpty ==
    (hlResult.kind = "throw" /\ hlResult.err.status = 422 /\ liqPc # "fetching")
    => /\ liqPc \in {"fetched", "done"}
       /\ events = <<>>
       /\ out = <<>>
       /\ liqError = NoError

\* C7 witness: the query was answered 422 on its last attempt and the
\* aggregate was returned
C7_Witness ==
    /\ hlResult.kind = "throw" /\ hlResult.err.status = 422
    /\ liqPc = "done"


\* the wallet universe is built and walletSummary has started its fetches
SummaryStarted ==
    /\ input.mode = "walletSummary"
    /\ callPc \in {"fetching", "positions", "done"}
    /\ fetchSt # <<>>

\* what walletSummary owes wallet k, read off the wallet's own address and
\* the outcome of its own fill fetch
OwnEntryOk(k) ==
    LET e == summary[k]
        r == fetchResp[k]
    IN /\ e.address = addrList[k]
       /\ IF r.ok
          THEN /\ e.error = NoMsg
               /\ e.hasFills
               /\ e.fills = r.data.fills
               /\ e.hasInsights
               /\ e.insights = analyseFills(r.data.fills)
          ELSE /\ e.error = [json |-> r.err.hasResponse, text |-> r.err.text]
               /\ e.error # NoMsg
               /\ ~e.hasFills
               /\ ~e.hasInsights
               /\ e.openPositions = "absent"

\* C8: in walletSummary, whichever wallets' fill fetches fail, the call does
\* not reject, and when it is done it has returned a summary with exactly one
\* entry per wallet of the list, in the list's order; the entry of a failed
\* wallet carries the error marker and neither fills nor insights, the entry
\* of any other wallet carries its fills and its insights, and each entry is
\* determined by its own wallet's address and fetch outcome alone.
C8_PerWalletIsolation ==
    SummaryStarted =>
        /\ callResult.kind # "rejected"
        /\ callPc = "done" =>
              /\ callResult = Returned("summary")
              /\ Len(summary) = Len(addrList)
              /\ \A k \in 1..Len(addrList) : OwnEntryOk(k)

C8_Witness ==
    /\ SummaryStarted
    /\ callPc = "done"
    /\ Len(addrList) = 2
    /\ addrList[1] # addrList[2]
    /\ ~fetchResp[1].ok
    /\ fetchResp[2].ok
    /\ summary[1].error # NoMsg
    /\ summary[2].insights.profitTakes # <<>>
    /\ summary[2].insights.flips # <<>>

\* the queries whose failure reaches _call: the address-list import and the
\* strategies' queries for reference universes, liquidations, candles and
\* open-interest history
UpstreamQueries ==
    {"import failed", "meta", "liquidations", "candles", "openInterestHistory"}

\* C9: whatever upstream queries fail, _call resolves to a returned value:
\* no invocation rejects because an upstream query failed.
C9_NeverRejectsOnUpstreamFailure ==
    ~(callResult.kind = "rejected" /\ callResult.cause \in UpstreamQueries)

\* 0x followed by exactly 40 hexadecimal digits
Conforming(a) == a.prefix = "0x" /\ a.digits = 40 /\ a.hex
\* _call is past the block that builds the wallet list (the import, where
\* one is made, has returned)
UniverseBuilt ==
    /\ callPc \notin {"idle", "start", "importing"}
    /\ callResult.cause \notin {"import not configured", "import failed"}

\* C10: in every mode, once the wallet list is built, if one of its addresses
\* is not 0x followed by exactly 40 hexadecimal digits, _call has returned
\* the invalid-address message naming every non-conforming address of the
\* list, in the list's order, and no request has been posted to the
\* exchange's query endpoint.
C10_InvalidAddressRejected ==
    (UniverseBuilt /\ \E k \in 1..Len(addrList) : ~Conforming(addrList[k])) =>
        /\ callPc = "done"
        /\ callResult = InvalidAddresses(SelectSeq(addrList, LAMBDA a : ~Conforming(a)))
        /\ requests = 0

C10_Witness ==
    /\ callPc = "done"
    /\ input.mode = "trendBias"
    /\ Len(addrList) = 2
    /\ Conforming(addrList[1])
    /\ addrList[2].digits = 41
    /\ callResult = InvalidAddresses(<<addrList[2]>>)
    /\ requests = 0

\* mode is neither walletSummary nor a key of the registry
UnknownMode == input.mode \notin Strategies \cup {"walletSummary"}
\* a request of the address-list import is out, or one was posted to the
\* exchange's query endpoint
NetworkCallMade == callPc = "importing" \/ requests > 0

\* C11: a call whose mode is neither walletSummary nor a registered detector
\* makes no network call: it is turned down with the unknown-mode message
\* (never run, never rejected with an error) before any request is sent.
C11_UnknownModeBeforeNetwork ==
    UnknownMode =>
        /\ ~NetworkCallMade
        /\ callResult.kind # "rejected"
        /\ callResult # Returned("result")

\* C12: in any result runDivergence returns, no wallet is in both the closer
\* set and the builder set of the returned instrument.
C12_ClosersBuildersDisjoint ==
    (divPc = "done" /\ divOut.hit) =>
        \A x \in 1..Len(divOut.closers), y \in 1..Len(divOut.builders) :
            divOut.closers[x].addr # divOut.builders[y].addr

\* addrList names no wallet twice
PulseDistinct ==
    \A x, y \in 1..Len(pdAddrs) : x # y => pdAddrs[x] # pdAddrs[y]

SweepPos(r) == CHOOSE k \in 1..Len(liqAgg) : liqAgg[k].coin = swOut[r].coin
SweepMax(r) == IF swOut[r].longLiq >= swOut[r].shortLiq THEN swOut[r].longLiq
               ELSE swOut[r].shortLiq

\* C14: the output of runLiquidationSweep holds one row per instrument of the
\* aggregation, in non-increasing order of max(longLiq, shortLiq), and rows
\* with equal max stand in the order their instruments were inserted into
\* the aggregation.
C14_SortedDescStable ==
    swPc = "done" =>
        /\ Len(swOut) = Len(liqAgg)
        /\ \A k \in 1..Len(liqAgg) : \E r \in 1..Len(swOut) : swOut[r].coin = liqAgg[k].coin
        /\ \A r \in 1..(Len(swOut) - 1) :
              /\ SweepMax(r) >= SweepMax(r + 1)
              /\ SweepMax(r) = SweepMax(r + 1) => SweepPos(r) < SweepPos(r + 1)

\* three instruments came out in an order other than the aggregation's, two
\* of them tied (their notionals differ below the cent)
C14_Witness ==
    /\ swPc = "done"
    /\ Len(swOut) = 3
    /\ SweepPos(1) = 3
    /\ SweepMax(2) = SweepMax(3)
    /\ liqAgg[SweepPos(2)].longs # liqAgg[SweepPos(3)].longs
    /\ SweepMax(1) > SweepMax(2)

\* C15: runCompressionRadar never returns an instrument whose candle count
\* in the window is below minTicks, whatever its range, net build and wallet
\* count.
C15_TicksBelowMinimumSkipped ==
    (crPc = "done" /\ crOut.hit) =>
        \E k \in 1..Len(coinStats) :
            coinStats[k].coin = crOut.coin /\ coinStats[k].ticks >= crP.minTicks

\* an instrument with too few candles met the range and build thresholds
\* and was passed over
C15_Witness ==
    /\ crPc = "done"
    /\ \E k \in 1..Len(coinStats) :
          /\ coinStats[k].ticks < crP.minTicks
          /\ buildQualifies(coinStats[k], flow, crP)
          /\ crOut.coin # coinStats[k].coin

\* C16: a detector for which no instrument or wallet qualifies returns an
\* explicit no-signal sentinel, never an empty list. For runLiquidationSweep:
\* when the aggregation holds no instrument, the value returned is not the
\* empty list.
C16_NoSignalIsSentinel ==
    (swPc = "done" /\ liqAgg = <<>>) => swOut # <<>>

\* C17: a call that comes strictly before the latest successful fetch's
\* completion time plus ttlMs returns the stored value without invoking fn,
\* every other call (none succeeded yet, or the TTL is over) invokes fn; the
\* slot's expiry is that completion time plus ttlMs.
C17_TtlRespected ==
    /\ lastOk.id # 0 => expiry = lastOk.at + ttlMs
    /\ lastCall.made =>
          LET before == lastCall.okBefore
          IN IF before.id # 0 /\ lastCall.at < before.at + ttlMs
             THEN /\ ~lastCall.fetched
                  /\ lastCall.stored = before.id
                  /\ lastEv = "call" =>
                        \E c \in Callers : cPc[c] = "done" /\ cGot[c] = before.id
             ELSE lastCall.fetched

\* a fetch succeeded at some time t; one call came before t + ttlMs and was
\* served from the slot; the first call at t + ttlMs invoked fn again
C17_Witness ==
    /\ lastOk.id = 1
    /\ cPc[2] = "done" /\ cGot[2] = 1 /\ cFetch[2] = 0
    /\ lastCall.at = lastOk.at + ttlMs
    /\ lastCall.fetched
    /\ cPc[3] = "fetching"

\* C18: a failed refresh does not invalidate the slot: whatever fetches have
\* failed, value and expiry are those the latest successful fetch wrote (or
\* the initial ones if none succeeded), so only a successful refresh
\* replaces them.
C18_FailureKeepsSlot ==
    /\ value = lastOk.id
    /\ expiry = IF lastOk.id = 0 THEN 0 ELSE lastOk.at + ttlMs

\* a refresh failed after the TTL of an earlier successful fetch was over
C18_Witness ==
    /\ lastEv = "fail"
    /\ lastOk.id # 0
    /\ now >= lastOk.at + ttlMs
    /\ value = lastOk.id

\* C19: the slot has a single writer per refresh: of the calls that arrive
\* for it after expiry, at most one invocation of fn is in flight.
C19_SingleFetchInFlight ==
    Cardinality({c \in Callers : cPc[c] = "fetching"}) <= 1

RECURSIVE flatten(_)
flatten(ss) == IF ss = <<>> THEN <<>> ELSE Head(ss) \o flatten(Tail(ss))
issuedIn(b) == \E k \in 1..Len(batches[b]) : \E x \in 1..Len(issued) : issued[x] = batches[b][k]
settledAll(b) == \A k \in 1..Len(batches[b]) : batches[b][k] \in settled

\* C20: in walletSummary the address list is split into consecutive batches of
\* at most 20, all but the last of exactly 20, which put end to end give the
\* list back (order kept, no wallet dropped or repeated); a fetch of batch
\* k+1 has been issued only if every fetch of batch k has settled; and the
\* entries are collected in list order.
C20_ConsecutiveBatches ==
    wsPc \in {"fetching", "done"} =>
        /\ flatten(batches) = wsList
        /\ \A b \in 1..Len(batches) :
              /\ Len(batches[b]) \in 1..ChunkSize
              /\ b < Len(batches) => Len(batches[b]) = ChunkSize
        /\ \A b \in 2..Len(batches) : issuedIn(b) => settledAll(b - 1)
        /\ Len(issued) - Cardinality(settled) <= GatewayMax
        /\ wsPc = "done" => wsRaw = wsList /\ issued = wsList

\* a list of more than 20 wallets went through, its last batch a short one
C20_Witness ==
    /\ wsPc = "done"
    /\ Len(wsList) > ChunkSize
    /\ Len(batches) >= 2
    /\ Len(batches[Len(batches)]) < ChunkSize

\* C21: every liquidation query issued by Liquidation Sweep and Liquidation
\* Sniper starts at end - min(requested, 119000) and spans at most 119,000 ms,
\* whatever window length was requested; an over-long window still produces
\* a query.
C21_WindowClamped ==
    lwPc = "queried" =>
        /\ lwQuery.type = "liquidations"
        /\ LET requested == withDefault(lwParam, IF lwWho = "liquidationSweep" THEN 60000 ELSE 90000)
           IN lwStart = lwEnd - (IF requested > 119000 THEN 119000 ELSE requested)
        /\ lwEnd - lwStart <= 119000
        /\ (lwQuery.endTime - lwQuery.startTime) * 1000 <= 119000

\* an over-long window was requested and the query spans the full 119 s
C21_Witness ==
    /\ lwPc = "queried"
    /\ lwParam.given /\ lwParam.ms > 119000
    /\ lwQuery.endTime - lwQuery.startTime = 119

\* the entries a wallet list and its upstream responses determine, in list order
entriesInListOrder == [k \in 1..Len(sjAddrs) |-> fillsEntry(sjAddrs[k], sjUp[k])]

\* C22: for a fixed wallet list and fixed upstream responses the folds of
\* runTrendBias and runDivergence give the value determined by the list and
\* the responses alone, whatever the order in which the fetches completed;
\* nothing is folded while a fetch is outstanding.
C22_ScatterThenJoin ==
    /\ sjPc = "fetching" => sjAgg = <<>> /\ sjBook = <<>>
    /\ sjPc = "done" =>
          /\ Len(sjOrder) = Len(sjAddrs)
          /\ sjAgg = trendFold(entriesInListOrder, <<>>)
          /\ sjBook = bookFold(entriesInListOrder, <<>>)

\* the fetches completed in another order than the list's, with different
\* responses, and the fold found something
C22_Witness ==
    /\ sjPc = "done"
    /\ Len(sjOrder) >= 2
    /\ sjOrder[1] > sjOrder[2]
    /\ sjUp[sjOrder[1]] # sjUp[sjOrder[2]]
    /\ sjAddrs[1] # sjAddrs[2]
    /\ sjAgg # <<>>
    /\ sjBook # <<>>

\* the wallets of an instrument's entry whose summed signed contribution is not 0
nonZeroFlows(w) == {j \in 1..Len(w) : w[j].flow # 0}
nonZeroDeltas(w) == {j \in 1..Len(w) : w[j].delta # 0}

\* C23: for every instrument of a net-notional aggregate that can be listed
\* (its net is not 0), walletCount -- Object.keys(v.wallets).length in
\* runFlowSweep, v.wallets.size in runTrendBias -- equals the number of
\* wallets whose summed signed contribution to the instrument is not 0.
C23_WalletCountNonZero ==
    /\ \A k \in 1..Len(fsAgg) :
          fsAgg[k].net # 0 => Len(fsAgg[k].wallets) = Cardinality(nonZeroFlows(fsAgg[k].wallets))
    /\ \A k \in 1..Len(tbAgg) :
          tbAgg[k].net # 0 =>
              Cardinality(tbAgg[k].wallets) = Cardinality(nonZeroDeltas(tbAgg[k].details))

\* the summed notional of the fills of one instrument with exactly this dir
RECURSIVE sumOfDir(_, _, _)
sumOfDir(fills, coin, dir) ==
    IF fills = <<>> THEN 0
    ELSE (IF Head(fills).coin = coin /\ Head(fills).dir = dir
          THEN Abs(Head(fills).sz) * Head(fills).px ELSE 0) + sumOfDir(Tail(fills), coin, dir)
fadingDir == IF snOut.cascadeSide = "longsLiquidated" THEN "Open Long" ELSE "Open Short"
fadingWallets ==
    {snResp[k].addr : k \in {j \in 1..Len(snResp) :
                                 sumOfDir(snResp[j].fills, snOut.coin, fadingDir) >= snP.buildThreshold}}

\* C24: when Liquidation Sniper reports an instrument, one side of it had a
\* cascade (longs first), and the wallets counted toward minWallets are
\* exactly those whose summed Open Long notional (long liquidations) or Open
\* Short notional (short liquidations) in it is >= buildThreshold.
C24_FadingSideBuilders ==
    (snPc = "done" /\ snOut.hit) =>
        /\ \E k \in 1..Len(snLiq) :
              /\ snLiq[k].coin = snOut.coin
              /\ IF snOut.cascadeSide = "longsLiquidated"
                 THEN snLiq[k].longs >= snP.liqThreshold
                 ELSE snLiq[k].shorts >= snP.liqThreshold /\ snLiq[k].longs < snP.liqThreshold
        /\ {snOut.walletAdds[k].addr : k \in 1..Len(snOut.walletAdds)} = fadingWallets
        /\ snOut.walletCount = Cardinality(fadingWallets)
        /\ snOut.walletCount >= snP.minWallets

\* a cascade of long liquidations with a builder, while another wallet's
\* closes and opposite opens in the instrument were left out
C24_Witness ==
    /\ snPc = "done" /\ snOut.hit
    /\ snOut.cascadeSide = "longsLiquidated"
    /\ \E k \in 1..Len(snResp) :
          /\ snResp[k].addr \notin fadingWallets
          /\ sumOfDir(snResp[k].fills, snOut.coin, "Close Long")
               + sumOfDir(snResp[k].fills, snOut.coin, "Open Short") >= snP.buildThreshold

\* the wallets of the reported closers and builders
reportedIn(bucket) ==
    IF bucket = "closers"
    THEN {divOut.closers[k].addr : k \in 1..Len(divOut.closers)}
    ELSE {divOut.builders[k].addr : k \in 1..Len(divOut.builders)}

\* C25: when runDivergence reports an instrument, the close totals of its
\* qualifying closers and the open totals of its qualifying builders are made
\* of fills of the reported side only.
C25_SameSideOnly ==
    (divPc = "done" /\ divOut.hit) =>
        \A t \in divSides :
            (t[1] = divOut.coin /\ t[3] \in reportedIn(t[2])) => t[4] = divOut.side

\* the row of openInterestHistory and the flow entry of the reported instrument
oiRowOf(c) == oiHist.rows[CHOOSE k \in 1..Len(oiHist.rows) : oiHist.rows[k].coin = c]
oiNetOf(c) == oiFlow[CoinIndex(oiFlow, c)].net

\* C26: runOpenInterestPulse returns an instrument only if its |OI delta| is
\* >= deltaUsd, its wallet count is >= minWallets and the sign of the wallets'
\* net flow matches the side filter (long: net > 0, short: net < 0, both:
\* either sign); the side in the result is a side the filter allows.
C26_SideFilterRespected ==
    (oiPc = "done" /\ oiOut.result = "hit") =>
        /\ Abs(oiRowOf(oiOut.coin).endOi - oiRowOf(oiOut.coin).startOi) >= oiP.deltaUsd
        /\ oiOut.walletCount >= oiP.minWallets
        /\ oiP.side = "long" => oiNetOf(oiOut.coin) > 0
        /\ oiP.side = "short" => oiNetOf(oiOut.coin) < 0
        /\ oiP.side = "both" => oiNetOf(oiOut.coin) # 0
        /\ oiOut.side \in (IF oiP.side = "both" THEN {"long", "short"} ELSE {oiP.side})

\* an event's sizeUsd is the held position's size, and 0 when none is held
heldNow(e) == e.sizeUsd > 0

\* C27: an event of runPositionDeltaPulse has action 'reduced' or 'added'
\* only if the wallet holds a position in the instrument now, and an event
\* for an instrument in which no position is held has action 'opened'.
C27_ClassificationRule ==
    \A k \in 1..Len(results) :
        /\ results[k].action \in {"reduced", "added"} => heldNow(results[k])
        /\ ~heldNow(results[k]) => results[k].action = "opened"

\* the fill list's Open and Close fills, by the words of their dir
afIsOpen(k) == afFills[k].dir \in {"Open Long", "Open Short"}
afIsClose(k) == afFills[k].dir \in {"Close Long", "Close Short"}
afSide(k) == IF afFills[k].dir \in {"Open Long", "Close Long"} THEN "long" ELSE "short"
afBig(k) == Abs(afFills[k].sz) * afFills[k].px >= 50000
\* the fills before k that recorded a side for k's instrument
afEarlier(k) ==
    {j \in 1..(k - 1) : (afIsOpen(j) \/ afIsClose(j))
                           /\ toUpperCase(afFills[j].coin) = toUpperCase(afFills[k].coin)}
afFlipAt(k) ==
    /\ afIsOpen(k) /\ afBig(k)
    /\ afEarlier(k) # {}
    /\ afSide(CHOOSE j \in afEarlier(k) : \A h \in afEarlier(k) : h <= j) # afSide(k)
afFlipIdx == {k \in 1..Len(afFills) : afFlipAt(k)}
afTakeIdx == {k \in 1..Len(afFills) : afIsClose(k) /\ afBig(k)}
\* the r-th smallest element of a set of indices
afNth(S, r) == CHOOSE k \in S : Cardinality({j \in S : j <= k}) = r

\* C28: for any ordered fill list, analyseFills records one flip for each Open
\* fill of notional >= 50,000 whose side differs from the last side recorded
\* for its instrument, no other flip, and one profitTake for each Close fill
\* of notional >= 50,000, in the fills' order; opening a Long of 10,000 @ $10
\* and closing it @ $12 gives one profitTake and no flip.
C28_FlipsAndProfitTakes ==
    afPc = "done" =>
        /\ Len(afOut.flips) = Cardinality(afFlipIdx)
        /\ \A r \in 1..Len(afOut.flips) :
              LET f == afFills[afNth(afFlipIdx, r)]
              IN /\ afOut.flips[r].coin = toUpperCase(f.coin)
                 /\ afOut.flips[r].to = afSide(afNth(afFlipIdx, r))
                 /\ afOut.flips[r].from # afOut.flips[r].to
                 /\ afOut.flips[r].sz = f.sz
        /\ Len(afOut.profitTakes) = Cardinality(afTakeIdx)
        /\ \A r \in 1..Len(afOut.profitTakes) :
              LET f == afFills[afNth(afTakeIdx, r)]
              IN /\ afOut.profitTakes[r].coin = toUpperCase(f.coin)
                 /\ afOut.profitTakes[r].dir = f.dir
                 /\ afOut.profitTakes[r].sz = f.sz
                 /\ afOut.profitTakes[r].px = f.px
        /\ afFills = <<[coin |-> "BTC", dir |-> "Open Long", sz |-> -10000, px |-> 10], CloseLongBig>>
              => Len(afOut.profitTakes) = 1 /\ afOut.flips = <<>>

\* the Long is opened and closed entirely, then a Short is opened: one
\* profitTake, and the only flip is the Short's
C28_Witness ==
    /\ afPc = "done"
    /\ Len(afFills) = 3
    /\ afFills[1].dir = "Open Long" /\ afBig(1)
    /\ afFills[2] = CloseLongBig
    /\ afFills[3].dir = "Open Short" /\ afFills[3].coin = "btc"
    /\ Len(afOut.profitTakes) = 1
    /\ Len(afOut.flips) = 1
    /\ afOut.flips[1].from = "long"

\* every task handed to the limiter so far has run and its finally callback has run
AllReleased == \A t \in 1..submitted : status[t] = "released"

\* every task handed to the limiter so far is through, and its caller's
\* promise has taken the task's own outcome
AllServed ==
    \A t \in 1..submitted :
        status[t] = "released" /\ outcome[t] # "none" /\ callerResult[t] = outcome[t]

\* C29: with every running task settling, the tasks handed to the limiter
\* are all through again and again (each one is started, whether it ran at
\* once or waited in the queue, and its caller's promise takes the task's
\* own outcome, a rejection releasing the slot like a fulfilment); a task
\* starts once, from new or from the queue; and when all tasks handed in are
\* through, active is 0 and the queue is empty.
C29_EveryTaskServed ==
    /\ []<>AllServed
    /\ [][\A t \in LiveTasks :
             (status[t] # "running" /\ status'[t] = "running") => status[t] \in {"new", "queued"}]_vars
    /\ [](AllReleased => active = 0 /\ q = <<>>)

\* more tasks than slots were handed in, one of them rejected, and all are through
C29_Witness ==
    /\ submitted > max
    /\ AllReleased
    /\ \E t \in 1..submitted : outcome[t] = "fail" /\ callerResult[t] = "fail"
    /\ \E t \in 1..submitted : outcome[t] = "ok"

\* the call names a key of the strategy registry and passes its own list of
\* addresses, all of them matching ETH_RE
registeredCall ==
    /\ input.mode \in Strategies
    /\ ~input.useBrowse
    /\ ~input.useSheet
    /\ Len(input.addresses) > 0
    /\ \A k \in 1..Len(input.addresses) : ETH_RE(input.addresses[k])

\* C30: a call of _call that names any key of the strategy registry and
\* passes a non-empty list of valid addresses never ends with the promise
\* rejected because the detector's name is not bound (a ReferenceError).
C30_RegisteredModesDispatch ==
    (callPc = "done" /\ registeredCall) => callResult # Rejected("ReferenceError")

=============================================================================
